---- MODULE Spec2Model ----
(***************************************************************************)
(* Hierarchical dependency-injection container and module registration     *)
(* factory of honorer (packages/core): di/container.ts, module/factory.ts,  *)
(* utils/registerController.ts.                                            *)
(***************************************************************************)
EXTENDS Integers, Sequences, FiniteSets, TLC

VARIABLES
    program,      \* name of the program under test (its classes and decorators)
    instances,    \* Container.instances, one insertion-ordered Map per container
    nextId,       \* identity of the next object created by `new` or a factory
    factory,      \* ModuleRegistrationFactory: registeredModules, moduleContainers,
                  \* currentModuleName, destroyRegistry
    router,       \* the handlers registered with the Hono app, in registration order
    imports,      \* ModuleMeta.imports of each module (rewritten by registerImports)
    completed,    \* history: modules in the order their registerModule call succeeded
    seen,         \* history: kinds of events that have happened ("failure", "destroy")
    ops,          \* number of API calls made so far
    lastOp,       \* the last API call and what it returned
    calls         \* the registerModule calls started without awaiting the one before:
                  \* per call its frames (each suspended at an await) and its promise

modVars == <<factory, router, imports, completed, seen, calls>>

vars == <<program, instances, nextId, factory, router, imports, completed, seen, ops, lastOp, calls>>

----------------------------------------------------------------------------
(* Bounds *)

MaxOps == 4
MaxDepth == 8
MaxEntries == 6
MaxCalls == 2

----------------------------------------------------------------------------
(* The container tree: Container.parent *)

Containers == {"root", "c1", "c2", "c3", "g"}

NoContainer == "none"

Parent(c) ==
    CASE c = "root" -> NoContainer
      [] c = "g" -> "c1"
      [] OTHER -> "root"

RECURSIVE Ancestors(_)
Ancestors(c) ==
    IF Parent(c) = NoContainer THEN {} ELSE {Parent(c)} \cup Ancestors(Parent(c))

----------------------------------------------------------------------------
(* JavaScript values held by a container or passed to its API *)

Classes == {"A", "B", "C", "D", "K"}

NoToken == "-"

Undefined == [k |-> "undefined"]

Prim(v) == [k |-> "prim", v |-> v]

FalsyPrims == {"0", "false", "empty", "null"}

Ctor(cls) == [k |-> "ctor", cls |-> cls]

\* a function value that is not a class: body names what a call does
Fun(body, arg) == [k |-> "fun", body |-> body, arg |-> arg]

\* an object that is not built by a class of the program; type is the value
\* of its `type` property ("none": absent); id 0 is an object literal of the
\* program text, id > 0 an object created at run time
Obj(name, id, type) == [k |-> "obj", name |-> name, id |-> id, type |-> type]

\* an object built by `new cls(...args)`
Inst(cls, id, args, props) == [k |-> "inst", cls |-> cls, id |-> id, args |-> args, props |-> props]

ClassProvider(ctor) == [k |-> "prov", type |-> "class", ctor |-> ctor]

FactoryProvider(fn) == [k |-> "prov", type |-> "factory", fn |-> fn]


----------------------------------------------------------------------------
(* Programs under test: the classes' decorator metadata (inject:params and  *)
(* design:paramtypes as deps, di:props as props, di:injectable), whether    *)
(* instances carry a `type` field, and the arguments the API calls draw on. *)

NoDeps == [c \in Classes |-> <<>>]

Untyped == [c \in Classes |-> "none"]

ArityOf(deps) == [c \in Classes |-> Len(deps[c])]

Modules == {"MA", "MB", "MC", "MU"}

\* getModuleMeta of a class without @Module
NoMeta == [k |-> "none"]

Meta(imps, exports, providers, controllers, middleware, prefix) ==
    [k |-> "meta", imports |-> imps, exports |-> exports, providers |-> providers,
     controllers |-> controllers, middleware |-> middleware, prefix |-> prefix]

\* entries of ModuleMeta.imports: a module class, a loader function or a
\* promise; m is the class the entry stands for ("none": not a class)
ImportClass(m) == [k |-> "class", m |-> m]

ImportLoader(m) == [k |-> "loader", m |-> m]

\* a promise of a module class, or of something that is not a function
ImportPromise(m) == [k |-> "promise", m |-> m]

\* an entry that is neither a function nor a promise
ImportValue == [k |-> "value", m |-> "none"]

\* entries of ModuleMeta.providers
ProvideClass(cls) == [k |-> "class", provide |-> cls]

UseClass(token, cls) == [k |-> "useClass", provide |-> token, useClass |-> cls]

UseValue(token, v) == [k |-> "useValue", provide |-> token, useValue |-> v]

UseFactory(token, inject) == [k |-> "useFactory", provide |-> token, inject |-> inject]

\* a useFactory provider whose factory returns an object with a `type` property
UseFactoryReturning(token, inject, type) == [returns |-> type] @@ UseFactory(token, inject)

\* the `type` property of the objects that the factory of a provider returns
ReturnsOf(provider) == IF "returns" \in DOMAIN provider THEN provider.returns ELSE "none"

\* RouteRecord with its @Use middleware and its schema bindings
Route(method, path, key, use, pb, qb, bb) ==
    [method |-> method, path |-> path, key |-> key, use |-> use,
     pb |-> pb, qb |-> qb, bb |-> bb, lb |-> <<>>]

Binding(index, schema) == [index |-> index, schema |-> schema]

\* a binding of the "route:params" metadata (@Param(name), @Query(name), ...)
LegacyBinding(index, source, name) == [index |-> index, source |-> source, name |-> name]

NoRoutes == [c \in Classes |-> <<>>]

\* a program without modules
NoModules ==
    [modules |-> [m \in Modules |-> NoMeta],
     prefix |-> [c \in Classes |-> <<>>], routes |-> NoRoutes, use |-> NoRoutes,
     initHook |-> {}, destroyHook |-> {}, autoInit |-> TRUE, rootDecl |-> <<>>,
     mods |-> {}, bads |-> {{}}, destroyBads |-> {{}}, reqs |-> {}]

Program(deps, props, typed, injectable, throws, tokens, conts, provs, ovrs) ==
    [deps |-> deps, props |-> props, typed |-> typed, arity |-> ArityOf(deps),
     injectable |-> injectable, throws |-> throws,
     tokens |-> tokens, conts |-> conts, provs |-> provs, ovrs |-> ovrs] @@ NoModules

\* the classes and decorators of a program with modules
ModProgram(deps, injectable, tokens, fields) ==
    fields @@ Program(deps, NoDeps, Untyped, injectable, {}, tokens, {}, [t \in {} |-> {}], {})

Mock == Obj("mock", 0, "none")

SelfProviders == [t \in Classes \cup {"CFG"} |->
                    IF t \in Classes THEN {Ctor(t), Undefined} ELSE {}]

\* DependentService(SimpleService) of di.container.test.ts
ChainProgram ==
    Program([NoDeps EXCEPT !["A"] = <<"B">>], NoDeps, Untyped, {"B"}, {},
            {"A", "B"}, {"root", "c1", "c2"}, SelfProviders, {Mock})

\* a property-injected service and a grandchild container
PropsProgram ==
    Program(NoDeps, [NoDeps EXCEPT !["A"] = <<"B">>], Untyped, {}, {},
            {"A", "B"}, {"root", "c1", "g"}, SelfProviders, {Fun("fresh", "none")})

\* a class whose instances have a `type` field, and token-based factories
TypedProgram ==
    Program(NoDeps, NoDeps, [Untyped EXCEPT !["A"] = "class", !["B"] = "kind"], {}, {},
            {"A", "B", "CFG"}, {"root", "c1"},
            [SelfProviders EXCEPT !["A"] = {Ctor("A")}, !["B"] = {Ctor("B")},
                                  !["CFG"] = {Fun("const", Prim("0")),
                                              Fun("const", Obj("cfg", 0, "none"))}],
            {Mock})

\* 'CONFIG' of di.container.test.ts: a string token given a direct value, a
\* function that returns a value, or a class (A takes B, B takes nothing)
ValuesProgram ==
    Program([NoDeps EXCEPT !["A"] = <<"B">>], NoDeps, Untyped, {"B"}, {},
            {"CFG"}, {"root", "c1"},
            [t \in Classes \cup {"CFG"} |->
                IF t = "CFG"
                THEN {Prim(v) : v \in FalsyPrims}
                     \cup {Obj("cfg", 0, "none"), Obj("cfg", 0, "kind"),
                           Fun("const", Prim("0")), Fun("const", Obj("cfg", 0, "kind")),
                           Ctor("A"), Ctor("B")}
                ELSE {}],
            {Mock, Prim("0"), Obj("mock", 0, "kind"), Fun("const", Prim("0"))})

\* a diamond: A takes B and C, both take D; B, C and D are @Injectable
DiamondProgram ==
    Program([NoDeps EXCEPT !["A"] = <<"B", "C">>, !["B"] = <<"D">>, !["C"] = <<"D">>],
            NoDeps, Untyped, {"B", "C", "D"}, {},
            {"A", "D"}, {"root", "c1"}, SelfProviders, {Mock})

\* the diamond with a D whose instances have a `type` field
TypedDiamondProgram ==
    Program(DiamondProgram.deps, NoDeps, [Untyped EXCEPT !["D"] = "kind"], {"B", "C", "D"}, {},
            {"A", "D"}, {"root", "c1"}, SelfProviders, {Mock})

\* classes that cannot be built until something is changed: A takes D and a
\* B whose constructor throws, C takes 'CFG' (a factory that may throw) and a
\* K that takes C in turn; only D is @Injectable
FailingProgram ==
    Program([NoDeps EXCEPT !["A"] = <<"D", "B">>, !["C"] = <<"CFG", "K">>, !["K"] = <<"C">>],
            NoDeps, Untyped, {"D"}, {"B"},
            {"A", "B", "C", "K", "CFG"}, {"root"},
            [t \in Classes \cup {"CFG"} |->
                IF t = "CFG" THEN {Fun("throw", "none"), Fun("const", Obj("cfg", 0, "none"))}
                ELSE {Ctor(t)}],
            {Mock})

DIPrograms == {"chain", "props", "typed", "values", "diamond", "typedDiamond", "failing"}

\* ServiceA(ServiceB), ServiceB(ServiceA) of di.container.test.ts, and
\* cycles of length one and three, and a cycle entered after a plain dependency
Cycle1Program ==
    Program([NoDeps EXCEPT !["A"] = <<"A">>], NoDeps, Untyped, {}, {},
            {"A"}, {"root", "c1"}, SelfProviders, {Mock})

Cycle2Program ==
    Program([NoDeps EXCEPT !["A"] = <<"B">>, !["B"] = <<"A">>], NoDeps, Untyped, {}, {},
            {"A", "B"}, {"root", "c1"}, SelfProviders, {Mock})

Cycle3Program ==
    Program([NoDeps EXCEPT !["A"] = <<"B">>, !["B"] = <<"C">>, !["C"] = <<"A">>],
            NoDeps, Untyped, {"C"}, {},
            {"A", "B", "C"}, {"root"}, SelfProviders, {Mock})

CycleSideProgram ==
    Program([NoDeps EXCEPT !["A"] = <<"D", "B">>, !["B"] = <<"A">>], NoDeps, Untyped, {"D"}, {},
            {"A", "B"}, {"root", "c1"}, SelfProviders, {Mock})

CyclePrograms == {"cycle1", "cycle2", "cycle3", "cycleSide"}

\* three modules that import nothing, one provider with hooks each
FlatProgram ==
    ModProgram(NoDeps, {"A", "B", "C"}, {"A", "B", "C"},
        [modules |-> [m \in Modules |->
            CASE m = "MA" -> Meta(<<>>, <<>>, <<ProvideClass("A")>>, <<>>, <<>>, <<>>)
              [] m = "MB" -> Meta(<<>>, <<>>, <<ProvideClass("B")>>, <<>>, <<>>, <<>>)
              [] m = "MC" -> Meta(<<>>, <<>>, <<ProvideClass("C")>>, <<>>, <<>>, <<>>)
              [] OTHER -> NoMeta],
         initHook |-> {"B"}, destroyHook |-> {"A", "B", "C"},
         mods |-> {"MA", "MB", "MC"}, bads |-> {{}, {"B"}}])

\* TestModule and AppModule of the module system tests: MA exports A, MB
\* imports MA and has a controller K(B(A)) behind module, controller and route
\* middleware and three schemas; MC imports MB and lists A again
LayeredProgram ==
    ModProgram([NoDeps EXCEPT !["B"] = <<"A">>, !["K"] = <<"B">>], {"A", "B", "K"}, {"A", "B", "K"},
        [modules |-> [m \in Modules |->
            CASE m = "MA" -> Meta(<<>>, <<"A">>, <<ProvideClass("A")>>, <<>>, <<"ma">>, <<>>)
              [] m = "MB" -> Meta(<<ImportClass("MA")>>, <<>>, <<ProvideClass("B")>>,
                                  <<"K">>, <<"m1">>, <<"/", "b">>)
              [] m = "MC" -> Meta(<<ImportClass("MB")>>, <<>>, <<ProvideClass("A")>>,
                                  <<>>, <<>>, <<>>)
              [] OTHER -> NoMeta],
         prefix |-> [c \in Classes |-> IF c = "K" THEN <<"/", "k">> ELSE <<>>],
         use |-> [NoRoutes EXCEPT !["K"] = <<"m2">>],
         routes |-> [NoRoutes EXCEPT !["K"] =
                        <<Route("get", <<"/">>, "show", <<"m3">>,
                                <<Binding(0, "P")>>, <<Binding(1, "Q")>>, <<Binding(2, "J")>>)>>],
         initHook |-> {"A", "B", "K"}, destroyHook |-> {"A", "B"},
         mods |-> {"MA", "MB", "MC", "MU"}, bads |-> {{}, {"B"}}, destroyBads |-> {{}, {"A"}},
         reqs |-> {[method |-> "get", path |-> <<"/", "k">>, failing |-> f] :
                        f \in SUBSET {"param", "query", "json"}}])

\* an import cycle: MA loads MB lazily, MB imports MA, MC imports both
CyclicProgram ==
    ModProgram([NoDeps EXCEPT !["B"] = <<"A">>], {"A", "B"}, {"A", "B"},
        [modules |-> [m \in Modules |->
            CASE m = "MA" -> Meta(<<ImportLoader("MB")>>, <<"A">>, <<ProvideClass("A")>>,
                                  <<>>, <<>>, <<>>)
              [] m = "MB" -> Meta(<<ImportClass("MA")>>, <<"B">>, <<ProvideClass("B")>>,
                                  <<>>, <<>>, <<>>)
              [] m = "MC" -> Meta(<<ImportClass("MA"), ImportLoader("MB")>>, <<>>, <<>>,
                                  <<>>, <<>>, <<>>)
              [] OTHER -> NoMeta],
         initHook |-> {"A", "B"}, destroyHook |-> {"A", "B"},
         mods |-> {"MA", "MB", "MC"}, bads |-> {{}, {"B"}}])

\* providers that cannot be built: A's constructor throws, B needs D that
\* nobody provides, C and K need each other
BrokenProgram ==
    ModProgram([NoDeps EXCEPT !["B"] = <<"D">>, !["C"] = <<"K">>, !["K"] = <<"C">>],
               {"A", "B", "C", "K"}, {"A", "B", "C", "K"},
        [modules |-> [m \in Modules |->
            CASE m = "MA" -> Meta(<<>>, <<>>, <<ProvideClass("A")>>, <<>>, <<>>, <<>>)
              [] m = "MB" -> Meta(<<>>, <<>>, <<ProvideClass("B")>>, <<>>, <<>>, <<>>)
              [] m = "MC" -> Meta(<<>>, <<>>, <<ProvideClass("C"), ProvideClass("K")>>,
                                  <<>>, <<>>, <<>>)
              [] OTHER -> NoMeta],
         throws |-> {"A"},
         mods |-> {"MA", "MB", "MC"}])

\* ConfigModule of the module system tests: MA computes CFG2 from the value
\* CFG and the service A; the factory of MB returns an object with a `type`
\* property; in MC the class C needs token F and the factory of F needs C,
\* and MC imports MA through a promise next to entries that yield no class
ConfigProgram ==
    ModProgram([NoDeps EXCEPT !["C"] = <<"F">>], {"A", "C"},
               {"A", "C", "CFG", "CFG2", "DB", "F"},
        [modules |-> [m \in Modules |->
            CASE m = "MA" -> Meta(<<>>, <<>>,
                                  <<UseFactory("CFG2", <<"CFG", "A">>), ProvideClass("A"),
                                    UseValue("CFG", Obj("cfg", 0, "none"))>>,
                                  <<>>, <<>>, <<>>)
              [] m = "MB" -> Meta(<<>>, <<>>, <<UseFactoryReturning("DB", <<>>, "kind")>>,
                                  <<>>, <<>>, <<>>)
              [] m = "MC" -> Meta(<<ImportLoader("none"), ImportPromise("MA"), ImportValue,
                                    ImportPromise("none")>>,
                                  <<>>, <<ProvideClass("C"), UseFactory("F", <<"C">>)>>,
                                  <<>>, <<>>, <<>>)
              [] OTHER -> NoMeta],
         mods |-> {"MA", "MB", "MC"}])

\* one controller whose handlers take validated arguments: two param schemas
\* and a query schema around an undecorated parameter, a body schema behind a
\* named route parameter, and a handler that takes the context only
BoundProgram ==
    ModProgram(NoDeps, {"K"}, {"K"},
        [modules |-> [m \in Modules |->
            CASE m = "MA" -> Meta(<<>>, <<>>, <<>>, <<"K">>, <<>>, <<>>)
              [] OTHER -> NoMeta],
         routes |-> [NoRoutes EXCEPT !["K"] =
                        <<Route("get", <<"/", "a">>, "list", <<>>,
                                <<Binding(2, "P2"), Binding(0, "P0")>>, <<Binding(3, "Q")>>, <<>>),
                          [Route("post", <<"/", "b">>, "update", <<>>,
                                 <<>>, <<>>, <<Binding(1, "J")>>)
                              EXCEPT !.lb = <<LegacyBinding(0, "param", "id")>>],
                          Route("get", <<"/", "c">>, "health", <<>>, <<>>, <<>>, <<>>)>>],
         mods |-> {"MA"},
         reqs |-> {[method |-> r[1], path |-> <<"/", r[2]>>, failing |-> f] :
                        r \in {<<"get", "a">>, <<"post", "b">>, <<"get", "c">>},
                        f \in {{}, {"query"}, {"json"}}}])

ModPrograms == {"flat", "layered", "cyclic", "broken", "config", "bound"}

Programs ==
    [flat |-> FlatProgram, layered |-> LayeredProgram, cyclic |-> CyclicProgram,
     broken |-> BrokenProgram, config |-> ConfigProgram, bound |-> BoundProgram,
     chain |-> ChainProgram, props |-> PropsProgram, typed |-> TypedProgram,
     values |-> ValuesProgram, diamond |-> DiamondProgram, typedDiamond |-> TypedDiamondProgram,
     failing |-> FailingProgram,
     cycle1 |-> Cycle1Program, cycle2 |-> Cycle2Program, cycle3 |-> Cycle3Program,
     cycleSide |-> CycleSideProgram]

\* the metadata of the program under test
world == Programs[program]


----------------------------------------------------------------------------
(* Tests the container makes on a value *)

Truthy(v) ==
    CASE v.k = "undefined" -> FALSE
      [] v.k = "prim" -> v.v \notin FalsyPrims
      [] OTHER -> TRUE

IsFunction(v) == v.k \in {"ctor", "fun"}

\* typeof v === "object"
IsObject(v) == v.k \in {"obj", "inst", "prov"} \/ (v.k = "prim" /\ v.v = "null")

\* v.type ("none" when the property is absent or undefined)
TypeOf(v) ==
    CASE v.k = "prov" -> v.type
      [] v.k = "obj" -> v.type
      [] v.k = "inst" -> world.typed[v.cls]
      [] OTHER -> "none"

\* Function.length of a provider argument
FnLength(v) == IF v.k = "ctor" THEN world.arity[v.cls] ELSE 0

----------------------------------------------------------------------------
(* Map<any, any> with insertion order *)

MapHas(m, key) == \E i \in 1..Len(m) : m[i].key = key

MapGet(m, key) ==
    IF MapHas(m, key)
    THEN m[CHOOSE i \in 1..Len(m) : m[i].key = key].val
    ELSE Undefined

MapSet(m, key, val) ==
    IF MapHas(m, key)
    THEN [i \in 1..Len(m) |-> IF m[i].key = key THEN [key |-> key, val |-> val] ELSE m[i]]
    ELSE Append(m, [key |-> key, val |-> val])

MapKeys(m) == [i \in 1..Len(m) |-> m[i].key]

RangeOf(seq) == {seq[i] : i \in 1..Len(seq)}

----------------------------------------------------------------------------
(* Container: register, override, clear, has *)

IsClassToken(token) == token \in Classes

Register(inst, c, token, provider) ==
    IF provider = Undefined
    THEN IF IsClassToken(token) /\ ~MapHas(inst[c], token)
         THEN [inst EXCEPT ![c] = MapSet(@, token, ClassProvider(token))]
         ELSE inst
    ELSE IF IsFunction(provider)
    THEN IF FnLength(provider) = 0 /\ provider # Ctor(token)
         THEN [inst EXCEPT ![c] = MapSet(@, token, FactoryProvider(provider))]
         ELSE [inst EXCEPT ![c] = MapSet(@, token, ClassProvider(provider.cls))]
    ELSE [inst EXCEPT ![c] = MapSet(@, token, provider)]

\* override that writes to the parent when the token is inherited from it
OverrideWhereDefined(inst, c, token, provider) ==
    LET d == IF MapHas(inst[c], token) \/ Parent(c) = NoContainer THEN c ELSE Parent(c)
    IN IF IsFunction(provider) /\ FnLength(provider) = 0
       THEN [inst EXCEPT ![d] = MapSet(@, token, FactoryProvider(provider))]
       ELSE [inst EXCEPT ![d] = MapSet(@, token, provider)]

Override(inst, c, token, provider) ==
    IF IsFunction(provider) /\ FnLength(provider) = 0
    THEN [inst EXCEPT ![c] = MapSet(@, token, FactoryProvider(provider))]
    ELSE [inst EXCEPT ![c] = MapSet(@, token, provider)]

Clear(inst, c) == [inst EXCEPT ![c] = <<>>]

GetTokens(inst, c) == MapKeys(inst[c])

RECURSIVE Has(_, _, _)
Has(inst, c, token) ==
    MapHas(inst[c], token)
        \/ (Parent(c) # NoContainer /\ Has(inst, Parent(c), token))

----------------------------------------------------------------------------
(* Container: resolve.  S = [inst, next, log] is the heap the call works on: *)
(* the containers' maps, the next object identity, and the constructors and *)
(* factories run so far by the call.                                        *)

Ok(S, v) == [S |-> S, ok |-> TRUE, val |-> v, err |-> "none"]

Err(S, e) == [S |-> S, ok |-> FALSE, val |-> Undefined, err |-> e]

Logged(S, ev, what, id) == [S EXCEPT !.log = Append(@, [ev |-> ev, what |-> what, id |-> id])]

\* a lookup that answers undefined where no provider is found
NotFoundAsUndefined(S, token) == Ok(S, Undefined)

\* throw new Error(`No provider found for ${token}`)
NotFound(S, token) == [token |-> token] @@ Err(S, "NoProvider")

\* existing.constructor of a value whose `type` property is "class"
ConstructorOf(v) ==
    CASE v.k = "prov" -> v.ctor
      [] v.k = "inst" -> v.cls
      [] OTHER -> "Object"

RECURSIVE ResolveWithStack(_, _, _, _, _)
RECURSIVE CreateInstance(_, _, _, _, _)
RECURSIVE ResolveParams(_, _, _, _, _, _, _)
RECURSIVE CallFactory(_, _, _)
RECURSIVE ResolveDeps(_, _, _, _, _)

\* one element of deps.map: r is what rootContainer.resolve(dep) did
DepResolved(r, deps, i, fuel, acc) ==
    IF r.ok THEN ResolveDeps(r.S, deps, i + 1, fuel, Append(acc, r.val))
    ELSE Err(r.S, r.err)

\* factoryWrapper of registerProviders: deps.map((dep) => rootContainer.resolve(dep))
ResolveDeps(S, deps, i, fuel, acc) ==
    IF i > Len(deps) THEN Ok(S, acc)
    ELSE DepResolved(ResolveWithStack(S, "root", deps[i], {}, fuel), deps, i, fuel, acc)

\* return factory(...resolvedDeps): d is what deps.map did
UseFactoryCalled(d, type) ==
    IF ~d.ok THEN Err(d.S, d.err)
    ELSE Ok([Logged(d.S, "call", "useFactory", 0) EXCEPT !.next = @ + 1],
            [k |-> "obj", name |-> "made", id |-> d.S.next, type |-> type, args |-> d.val])

\* existing.factory()
CallFactory(S, fn, fuel) ==
    IF fn.k # "fun" THEN Err(S, "TypeError")
    ELSE LET S1 == Logged(S, "call", fn.body, 0)
         IN CASE fn.body = "const" -> Ok(S1, fn.arg)
              [] fn.body = "fresh" ->
                    Ok([S1 EXCEPT !.next = @ + 1], Obj("fresh", S1.next, fn.arg))
              [] fn.body = "throw" -> Err(S1, "FactoryThrow")
              [] fn.body = "alias" -> ResolveWithStack(S1, "root", fn.arg, {}, fuel)
              [] fn.body = "wrap" ->
                    UseFactoryCalled(ResolveDeps(S1, fn.arg.inject, 1, fuel, <<>>), fn.arg.returns)
              [] OTHER -> Err(S, "TypeError")

\* if (!this.has(token) && Reflect.getMetadata("di:injectable", token)) this.register(token)
AutoRegistered(S, c, token) ==
    IF ~Has(S.inst, c, token) /\ token \in world.injectable
    THEN [S EXCEPT !.inst = Register(@, c, token, Undefined)]
    ELSE S

\* one element of the params array: r is what resolveWithStack(token) did
ParamResolved(r, c, tokens, i, stack, fuel, acc) ==
    IF r.ok THEN ResolveParams(r.S, c, tokens, i + 1, stack, fuel, Append(acc, r.val))
    ELSE Err(r.S, r.err)

\* the params array of createInstance and its property loop: resolve tokens
\* in order, auto-registering @Injectable classes this container cannot see
ResolveParams(S, c, tokens, i, stack, fuel, acc) ==
    IF i > Len(tokens) THEN Ok(S, acc)
    ELSE IF tokens[i] = NoToken
    THEN ResolveParams(S, c, tokens, i + 1, stack, fuel, Append(acc, Undefined))
    ELSE IF ~Has(S.inst, c, tokens[i]) /\ ~IsClassToken(tokens[i])
    THEN Err(S, "TypeError")
    ELSE ParamResolved(
            ResolveWithStack(AutoRegistered(S, c, tokens[i]), c, tokens[i], stack, fuel),
            c, tokens, i, stack, fuel, acc)

\* the end of createInstance: q is what the property loop did
PropsInjected(q, ctor, id, args) ==
    IF ~q.ok THEN Err(q.S, q.err)
    ELSE Ok(q.S, Inst(ctor, id, args, q.val))

\* new constructor(...params) and the property loop: p is what the params
\* array did
Constructed(p, c, ctor, stack, fuel) ==
    IF ~p.ok THEN Err(p.S, p.err)
    ELSE IF ctor \in world.throws THEN Err(Logged(p.S, "new", ctor, 0), "CtorThrow")
    ELSE PropsInjected(
            ResolveParams(Logged([p.S EXCEPT !.next = @ + 1], "new", ctor, p.S.next),
                          c, world.props[ctor], 1, stack \cup {ctor}, fuel, <<>>),
            ctor, p.S.next, p.val)

\* createInstance without the check of the resolution stack
CreateInstanceUnguarded(S, c, ctor, stack, fuel) ==
    IF ctor \notin Classes
    THEN Ok(Logged([S EXCEPT !.next = @ + 1], "new", ctor, S.next), Obj("fresh", S.next, "none"))
    ELSE Constructed(ResolveParams(S, c, world.deps[ctor], 1, stack \cup {ctor}, fuel, <<>>),
                     c, ctor, stack, fuel)

CreateInstance(S, c, ctor, stack, fuel) ==
    IF ctor \in stack THEN Err(S, "Circular")
    ELSE IF ctor \notin Classes
    THEN Ok(Logged([S EXCEPT !.next = @ + 1], "new", ctor, S.next), Obj("fresh", S.next, "none"))
    ELSE Constructed(ResolveParams(S, c, world.deps[ctor], 1, stack \cup {ctor}, fuel, <<>>),
                     c, ctor, stack, fuel)

\* a cache that forgets the provider of a token that could not be built
CachedOrDropped(r, c, token) ==
    IF r.ok THEN Ok([r.S EXCEPT !.inst[c] = MapSet(@, token, r.val)], r.val)
    ELSE [r EXCEPT !.S.inst[c] = MapSet(@, token, Undefined)]

\* this.instances.set(token, instance): r is what building the instance did
Cached(r, c, token) ==
    IF r.ok THEN Ok([r.S EXCEPT !.inst[c] = MapSet(@, token, r.val)], r.val)
    ELSE r

ResolveWithStack(S, c, token, stack, fuel) ==
    IF fuel = 0 THEN Err(S, "RangeError")
    ELSE
    LET existing == MapGet(S.inst[c], token)
    IN IF Truthy(existing) /\ (~IsObject(existing) \/ TypeOf(existing) = "none")
       THEN Ok(S, existing)
       ELSE IF Truthy(existing) /\ IsObject(existing) /\ TypeOf(existing) # "none"
       THEN Cached(CASE TypeOf(existing) = "factory" ->
                            IF existing.k = "prov"
                            THEN CallFactory(S, existing.fn, fuel - 1)
                            ELSE Err(S, "TypeError")
                     [] TypeOf(existing) = "class" ->
                            CreateInstance(S, c, ConstructorOf(existing), stack, fuel - 1)
                     [] OTHER -> Err(S, "UnknownProviderType"),
                   c, token)
       ELSE IF Parent(c) # NoContainer /\ Has(S.inst, Parent(c), token)
       THEN ResolveWithStack(S, Parent(c), token, {}, fuel - 1)
       ELSE NotFound(S, token)

Heap(inst, next) == [inst |-> inst, next |-> next, log |-> <<>>]

Resolve(inst, next, c, token) == ResolveWithStack(Heap(inst, next), c, token, {}, MaxDepth)

----------------------------------------------------------------------------
(* Calls of the Container API *)

NoOp == [op |-> "init", c |-> NoContainer, token |-> NoToken, arg |-> Undefined,
         ok |-> TRUE, val |-> Undefined, err |-> "none", log |-> <<>>,
         names |-> <<>>, bad |-> {}, trace |-> <<>>]

Call(op, c, token, arg) == [NoOp EXCEPT !.op = op, !.c = c, !.token = token, !.arg = arg]

EmptyContainers == [c \in Containers |-> <<>>]

RegisterCall(c, token, provider) ==
    /\ ops < MaxOps
    /\ instances' = Register(instances, c, token, provider)
    /\ lastOp' = Call("register", c, token, provider)
    /\ ops' = ops + 1
    /\ UNCHANGED <<program, nextId, modVars>>

OverrideCall(c, token, provider) ==
    /\ ops < MaxOps
    /\ instances' = Override(instances, c, token, provider)
    /\ lastOp' = Call("override", c, token, provider)
    /\ ops' = ops + 1
    /\ UNCHANGED <<program, nextId, modVars>>

ClearCall(c) ==
    /\ ops < MaxOps
    /\ instances' = Clear(instances, c)
    /\ lastOp' = Call("clear", c, NoToken, Undefined)
    /\ ops' = ops + 1
    /\ UNCHANGED <<program, nextId, modVars>>

\* what the caller of resolve sees: the value or the error r, and the heap
Returned(c, token, r) ==
    /\ instances' = r.S.inst
    /\ nextId' = r.S.next
    /\ lastOp' = [Call("resolve", c, token, Undefined) EXCEPT
                     !.ok = r.ok, !.val = r.val, !.err = r.err, !.log = r.S.log]

ResolveCall(c, token) ==
    /\ ops < MaxOps
    /\ Returned(c, token, Resolve(instances, nextId, c, token))
    /\ ops' = ops + 1
    /\ UNCHANGED <<program, modVars>>

NextDI ==
    \/ \E c \in world.conts, t \in world.tokens : \E p \in world.provs[t] : RegisterCall(c, t, p)
    \/ \E c \in world.conts, t \in world.tokens : \E p \in world.ovrs : OverrideCall(c, t, p)
    \/ \E c \in world.conts : ClearCall(c)
    \/ \E c \in world.conts, t \in world.tokens : ResolveCall(c, t)

----------------------------------------------------------------------------
(* registerControllersWithModules and the Hono app it registers with *)

\* normalizeRoutePath: collapse runs of "/" and drop one trailing "/"
RECURSIVE CollapseSlashes(_)
CollapseSlashes(path) ==
    IF Len(path) < 2 THEN path
    ELSE IF path[1] = "/" /\ path[2] = "/" THEN CollapseSlashes(Tail(path))
    ELSE <<path[1]>> \o CollapseSlashes(Tail(path))

NormalizeRoutePath(prefix, path) ==
    LET combined == CollapseSlashes(prefix \o path)
    IN IF Len(combined) > 1 /\ combined[Len(combined)] = "/"
       THEN SubSeq(combined, 1, Len(combined) - 1)
       ELSE combined

Middleware(id) == [kind |-> "mw", id |-> id]

Validator(target, schema) == [kind |-> "validator", target |-> target, schema |-> schema]

Handler(ctl, key, instance) == [kind |-> "handler", ctl |-> ctl, key |-> key, instance |-> instance]

\* the route handler closes over the bindings read when the route is registered
BoundHandler(ctl, route, instance) ==
    [pb |-> route.pb, qb |-> route.qb, bb |-> route.bb, lb |-> route.lb]
        @@ Handler(ctl, route.key, instance)

\* the request context that is passed to the handler
Context == [k |-> "context"]

\* result.data of schema.safeParse on the request's params, query or body
Parsed(source, schema) == [k |-> "parsed", source |-> source, schema |-> schema]

\* request data that no schema parsed: c.req.param(name), c.req.query(name),
\* the objects of all params or of the whole query, the body
Raw(source, name) == [k |-> "raw", source |-> source, name |-> name]

\* pickFirstSchema: the schema of the binding with the lowest index
PickFirstSchema(bindings) ==
    (CHOOSE b \in RangeOf(bindings) : \A o \in RangeOf(bindings) : b.index <= o.index).schema

ValidatorMiddleware(route) ==
    (IF Len(route.pb) > 0 THEN <<Validator("param", PickFirstSchema(route.pb))>> ELSE <<>>)
    \o (IF Len(route.qb) > 0 THEN <<Validator("query", PickFirstSchema(route.qb))>> ELSE <<>>)
    \o (IF Len(route.bb) > 0 THEN <<Validator("json", PickFirstSchema(route.bb))>> ELSE <<>>)

\* app[r.method](fullPath, ...allMiddleware, ...validatorMiddleware, handler)
RouteHandlers(ctl, route, instance) ==
    [i \in 1..Len(world.use[ctl]) |-> Middleware(world.use[ctl][i])]
    \o [i \in 1..Len(route.use) |-> Middleware(route.use[i])]
    \o ValidatorMiddleware(route)
    \o <<BoundHandler(ctl, route, instance)>>

AddRoute(rt, method, path, handlers) ==
    rt \o [i \in 1..Len(handlers) |-> [method |-> method, path |-> path, h |-> handlers[i]]]

RECURSIVE AddRoutes(_, _, _, _, _)
AddRoutes(rt, ctl, routes, i, instance) ==
    IF i > Len(routes) THEN rt
    ELSE AddRoutes(AddRoute(rt, routes[i].method,
                            NormalizeRoutePath(world.prefix[ctl], routes[i].path),
                            RouteHandlers(ctl, routes[i], instance)),
                   ctl, routes, i + 1, instance)

RECURSIVE RegisterControllersWithModules(_, _, _, _)

\* the routes of one controller: r is what container.resolve(Controller) did
ControllerResolved(r, controllers, i, c) ==
    IF ~r.ok THEN r
    ELSE RegisterControllersWithModules(
            [r.S EXCEPT !.router = AddRoutes(@, controllers[i],
                                             world.routes[controllers[i]], 1, r.val)],
            controllers, i + 1, c)

RegisterControllersWithModules(F, controllers, i, c) ==
    IF i > Len(controllers) THEN Ok(F, Undefined)
    ELSE ControllerResolved(ResolveWithStack(F, c, controllers[i], {}, MaxDepth),
                            controllers, i, c)

\* app.use("*", middleware)
AppUse(rt, middleware) == Append(rt, [method |-> "ALL", path |-> <<"*">>, h |-> Middleware(middleware)])

\* Hono: the handlers matching a request run in the order they were registered;
\* a middleware and a passing validator call next, a failing validator and a
\* route handler answer the request
Matches(entry, req) ==
    /\ entry.method \in {"ALL", req.method}
    /\ entry.path \in {<<"*">>, req.path}

\* c.get("validatedParams" | "validatedQuery" | "validatedBody"): what the
\* validator of that target stored when it ran before the handler
ContextGet(trace, target) ==
    IF \E i \in 1..Len(trace) : trace[i].kind = "validator" /\ trace[i].target = target
    THEN Parsed(target, trace[CHOOSE i \in 1..Len(trace) :
                                  /\ trace[i].kind = "validator" /\ trace[i].target = target
                                  /\ \A j \in (i + 1)..Len(trace) :
                                        ~(trace[j].kind = "validator" /\ trace[j].target = target)].schema)
    ELSE Undefined

\* bindings.find((s) => s.index === i)
BindingAt(bindings, i) ==
    bindings[CHOOSE j \in 1..Len(bindings) :
                /\ bindings[j].index = i
                /\ \A k \in 1..(j - 1) : bindings[k].index # i]

\* the validated value of the context, or the data parsed by the binding's schema
SchemaArg(validated, target, binding) ==
    IF Truthy(validated) THEN validated ELSE Parsed(target, binding.schema)

LegacyArg(b) ==
    IF b.source \in {"param", "query"} THEN Raw(b.source, b.name)
    ELSE IF b.name = "body" THEN Raw("json", "all")
    ELSE Undefined

\* args[i] of the route handler
ArgAt(h, i, trace) ==
    IF \E b \in RangeOf(h.pb) : b.index = i
    THEN SchemaArg(ContextGet(trace, "param"), "param", BindingAt(h.pb, i))
    ELSE IF \E b \in RangeOf(h.qb) : b.index = i
    THEN SchemaArg(ContextGet(trace, "query"), "query", BindingAt(h.qb, i))
    ELSE IF \E b \in RangeOf(h.bb) : b.index = i
    THEN SchemaArg(ContextGet(trace, "json"), "json", BindingAt(h.bb, i))
    ELSE IF \E b \in RangeOf(h.lb) : b.index = i
    THEN LegacyArg(BindingAt(h.lb, i))
    ELSE Undefined

MaxIndex(h) ==
    LET indices == {b.index : b \in RangeOf(h.pb) \cup RangeOf(h.qb) \cup RangeOf(h.bb) \cup RangeOf(h.lb)} \cup {-1}
    IN CHOOSE n \in indices : \A o \in indices : o <= n

\* boundHandler(...args, c), or boundHandler(c) for a route without bindings
HandlerArgs(h, trace) ==
    IF Len(h.pb) > 0 \/ Len(h.qb) > 0 \/ Len(h.bb) > 0 \/ Len(h.lb) > 0
    THEN [i \in 1..(MaxIndex(h) + 1) |-> ArgAt(h, i - 1, trace)] \o <<Context>>
    ELSE <<Context>>

\* the handler's entry in the history of the request, with what it received
Invoked(h, trace) == [args |-> HandlerArgs(h, trace)] @@ h

RECURSIVE RunChain(_, _, _, _)
RECURSIVE RunChainThrough(_, _, _, _)

\* a chain in which a rejecting validator still calls next
RunChainThrough(chain, i, req, trace) ==
    IF i > Len(chain) THEN [trace |-> trace, status |-> 404]
    ELSE IF chain[i].h.kind \in {"mw", "validator"}
    THEN RunChainThrough(chain, i + 1, req, Append(trace, chain[i].h))
    ELSE [trace |-> Append(trace, Invoked(chain[i].h, trace)), status |-> 200]

RunChain(chain, i, req, trace) ==
    IF i > Len(chain) THEN [trace |-> trace, status |-> 404]
    ELSE LET h == chain[i].h
         IN CASE h.kind = "mw" -> RunChain(chain, i + 1, req, Append(trace, h))
              [] h.kind = "validator" ->
                    IF h.target \in req.failing
                    THEN [trace |-> Append(trace, h), status |-> 400]
                    ELSE RunChain(chain, i + 1, req, Append(trace, h))
              [] OTHER -> [trace |-> Append(trace, Invoked(h, trace)), status |-> 200]

Dispatch(rt, req) == RunChain(SelectSeq(rt, LAMBDA e : Matches(e, req)), 1, req, <<>>)

----------------------------------------------------------------------------
(* ModuleRegistrationFactory.  F is the heap S of resolve extended with the *)
(* factory's fields (fac), the router, the modules' imports and the history. *)

ContainerOf(m) ==
    CASE m = "MA" -> "c1"
      [] m = "MB" -> "c2"
      [] OTHER -> "c3"

Remove(seq, x) == SelectSeq(seq, LAMBDA y : y # x)

Reverse(seq) == [i \in 1..Len(seq) |-> seq[Len(seq) + 1 - i]]

ModErr(F, cause, names) == [S |-> F, ok |-> FALSE, val |-> Undefined, err |-> cause, names |-> names]

NamesOf(r) == IF "names" \in DOMAIN r THEN r.names ELSE <<>>

AliasToRoot(token) == Fun("alias", token)

RECURSIVE RegisterAll(_, _, _, _)
RegisterAll(inst, c, tokens, i) ==
    IF i > Len(tokens) THEN inst
    ELSE RegisterAll(Register(inst, c, tokens[i], AliasToRoot(tokens[i])), c, tokens, i + 1)

RECURSIVE ImportExportedProviders(_, _, _, _)
ImportExportedProviders(inst, imps, i, c) ==
    IF i > Len(imps) THEN inst
    ELSE LET importedMeta == world.modules[imps[i].m]
         IN IF importedMeta = NoMeta
            THEN ImportExportedProviders(inst, imps, i + 1, c)
            ELSE ImportExportedProviders(RegisterAll(inst, c, importedMeta.exports, 1), imps, i + 1, c)

RegisterProvider(inst, provider, c) ==
    LET inRoot ==
            CASE provider.k = "class" ->
                    Register(inst, "root", provider.provide, Ctor(provider.provide))
              [] provider.k = "useClass" ->
                    Register(inst, "root", provider.provide, Ctor(provider.useClass))
              [] provider.k = "useValue" ->
                    Register(inst, "root", provider.provide, Fun("const", provider.useValue))
              [] provider.k = "useFactory" ->
                    Register(inst, "root", provider.provide,
                             Fun("wrap", [inject |-> provider.inject,
                                          returns |-> ReturnsOf(provider)]))
              [] OTHER -> inst
    IN IF provider.k \in {"class", "useClass", "useValue", "useFactory"}
       THEN Register(inRoot, c, provider.provide, AliasToRoot(provider.provide))
       ELSE inst

RECURSIVE RegisterProviders(_, _, _, _)
RegisterProviders(inst, providers, i, c) ==
    IF i > Len(providers) THEN inst
    ELSE RegisterProviders(RegisterProvider(inst, providers[i], c), providers, i + 1, c)

RECURSIVE RegisterOwnControllers(_, _, _, _)
RegisterOwnControllers(inst, controllers, i, c) ==
    IF i > Len(controllers) THEN inst
    ELSE RegisterOwnControllers(
            IF Has(inst, c, controllers[i]) THEN inst
            ELSE Register(inst, c, controllers[i], Ctor(controllers[i])),
            controllers, i + 1, c)

RegisterControllers(F, meta, c) ==
    IF Len(meta.controllers) = 0 THEN Ok(F, Undefined)
    ELSE RegisterControllersWithModules(
            [F EXCEPT !.inst = RegisterOwnControllers(@, meta.controllers, 1, c)],
            meta.controllers, 1, c)

RECURSIVE ApplyModuleMiddleware(_, _, _)
ApplyModuleMiddleware(rt, middleware, i) ==
    IF i > Len(middleware) THEN rt
    ELSE ApplyModuleMiddleware(AppUse(rt, middleware[i]), middleware, i + 1)

HasInitHook(v) == v.k = "inst" /\ v.cls \in world.initHook

HasDestroyHook(v) == v.k = "inst" /\ v.cls \in world.destroyHook

\* catch (err) { ...; continue }: the token that did not resolve is skipped
Skipped(S, m, token, err) ==
    [S EXCEPT !.log = Append(@, [ev |-> "skipToken", what |-> m, id |-> 0,
                                 token |-> token, err |-> err])]

\* bad: the classes whose onModuleInit throws during this call
RECURSIVE RunInitHooks(_, _, _, _, _, _, _)

\* an init loop that reports a throwing hook and goes on with the next token
TokenResolvedContinuing(r, m, c, tokens, i, bad, destroyables) ==
    IF ~r.ok THEN RunInitHooks(Skipped(r.S, m, tokens[i], r.err), m, c, tokens, i + 1, bad, destroyables)
    ELSE IF ~HasInitHook(r.val)
    THEN RunInitHooks(r.S, m, c, tokens, i + 1, bad, destroyables)
    ELSE IF r.val.cls \in bad
    THEN RunInitHooks(Logged(Logged(r.S, "init", m, r.val.id), "throw", m, r.val.id),
                      m, c, tokens, i + 1, bad, destroyables)
    ELSE RunInitHooks(Logged(r.S, "init", m, r.val.id), m, c, tokens, i + 1, bad, destroyables)

\* the hooks of one token: r is what moduleContainer.resolve(token) did
TokenResolved(r, m, c, tokens, i, bad, destroyables) ==
    IF ~r.ok THEN RunInitHooks(Skipped(r.S, m, tokens[i], r.err), m, c, tokens, i + 1, bad, destroyables)
    ELSE IF ~HasInitHook(r.val)
    THEN RunInitHooks(r.S, m, c, tokens, i + 1, bad,
                      IF HasDestroyHook(r.val) THEN Append(destroyables, r.val)
                      ELSE destroyables)
    ELSE IF r.val.cls \in bad
    THEN Err(Logged(Logged(r.S, "init", m, r.val.id), "throw", m, r.val.id), "InitHookThrow")
    ELSE RunInitHooks(Logged(r.S, "init", m, r.val.id), m, c, tokens, i + 1, bad,
                      IF HasDestroyHook(r.val) THEN Append(destroyables, r.val)
                      ELSE destroyables)

RunInitHooks(F, m, c, tokens, i, bad, destroyables) ==
    IF i > Len(tokens)
    THEN Ok(IF Len(destroyables) > 0
            THEN [F EXCEPT !.fac.destroyRegistry[m] = destroyables]
            ELSE F, Undefined)
    ELSE TokenResolved(ResolveWithStack(F, c, tokens[i], {}, MaxDepth),
                       m, c, tokens, i, bad, destroyables)

RunInitHooksForModule(F, m, c, bad) ==
    RunInitHooks(F, m, c, GetTokens(F.inst, c), 1, bad, <<>>)

RECURSIVE RegisterModule(_, _, _)
RECURSIVE RegisterImports(_, _, _, _, _, _)

\* one import: r is what registerModule(modClass) did
ImportRegistered(r, m, imps, i, resolvedImports, bad) ==
    IF ~r.ok THEN r
    ELSE RegisterImports(r.S, m, imps, i + 1,
                         Append(resolvedImports, ImportClass(imps[i].m)), bad)

\* a registerImports that rejects where an entry yields no module class
RegisterImportsStrict(F, m, imps, i, resolvedImports, bad) ==
    IF i > Len(imps)
    THEN Ok(IF Len(imps) > 0 THEN [F EXCEPT !.imports[m] = resolvedImports] ELSE F, Undefined)
    ELSE IF imps[i].k = "class" /\ world.modules[imps[i].m] = NoMeta
    THEN Err(F, "TypeError")
    ELSE IF imps[i].m = "none"
    THEN Err(F, "UnresolvedImport")
    ELSE ImportRegistered(RegisterModule(F, imps[i].m, bad), m, imps, i, resolvedImports, bad)

\* a registerImports that returns without registering any import
RegisterImportsSkipped(F, m, imps, i, resolvedImports, bad) == Ok(F, Undefined)

RegisterImports(F, m, imps, i, resolvedImports, bad) ==
    IF i > Len(imps)
    THEN Ok(IF Len(imps) > 0 THEN [F EXCEPT !.imports[m] = resolvedImports] ELSE F, Undefined)
    ELSE IF imps[i].k = "class" /\ world.modules[imps[i].m] = NoMeta
    THEN Err(F, "TypeError")
    ELSE IF imps[i].m = "none"
    THEN RegisterImports(F, m, imps, i + 1, resolvedImports, bad)
    ELSE ImportRegistered(RegisterModule(F, imps[i].m, bad), m, imps, i, resolvedImports, bad)

\* importExportedProviders and registerProviders of module m
ProvidersRegistered(F, m, c) ==
    [Logged(F, "providers", m, 0) EXCEPT
        !.inst = RegisterProviders(ImportExportedProviders(@, F.imports[m], 1, c),
                                   world.modules[m].providers, 1, c)]

MiddlewareApplied(F, m) ==
    [F EXCEPT !.router = ApplyModuleMiddleware(@, world.modules[m].middleware, 1)]

\* applyModuleMiddleware and the init hooks: rc is what registerControllers did
ControllersRegistered(rc, m, c, bad) ==
    IF ~rc.ok THEN rc
    ELSE IF world.autoInit
    THEN RunInitHooksForModule(MiddlewareApplied(rc.S, m), m, c, bad)
    ELSE Ok(MiddlewareApplied(rc.S, m), Undefined)

\* the steps after registerImports: ri is what registerImports did
ImportsRegistered(ri, m, c, bad) ==
    IF ~ri.ok THEN ri
    ELSE ControllersRegistered(
            RegisterControllers(Logged(ProvidersRegistered(ri.S, m, c), "controllers", m, 0),
                                world.modules[m], c),
            m, c, bad)

\* the try block of registerModule without the check of the descriptor:
\* a try block that treats a class without descriptor as an empty module
RegisterBodyUnchecked(F, m, bad) ==
    IF world.modules[m] = NoMeta THEN Ok(F, Undefined)
    ELSE ImportsRegistered(
            RegisterImports([F EXCEPT !.inst[ContainerOf(m)] = <<>>,
                                      !.fac.moduleContainers = @ \cup {m}],
                            m, F.imports[m], 1, <<>>, bad),
            m, ContainerOf(m), bad)

RegisterBody(F, m, bad) ==
    IF world.modules[m] = NoMeta THEN Err(Logged(F, "throw", m, 0), "MissingDecorator")
    ELSE ImportsRegistered(
            RegisterImports([F EXCEPT !.inst[ContainerOf(m)] = <<>>,
                                      !.fac.moduleContainers = @ \cup {m}],
                            m, F.imports[m], 1, <<>>, bad),
            m, ContainerOf(m), bad)

\* a catch block that rethrows without removing the module from the set
RegistrationFailedKeepingMark(F, m, r) ==
    ModErr(F, r.err, <<F.fac.currentModuleName>> \o NamesOf(r))

\* the catch block of registerModule
RegistrationFailed(F, m, r) ==
    ModErr([F EXCEPT !.fac.registeredModules = Remove(@, m)],
           r.err, <<F.fac.currentModuleName>> \o NamesOf(r))

\* registerModule without the early return
SkipCheckDropped(F, m) == FALSE

AlreadyRegistered(F, m) == m \in RangeOf(F.fac.registeredModules)

\* the end of registerModule: r is what the try block did
BodyDone(r, m) ==
    IF r.ok THEN Ok([Logged(r.S, "done", m, 0) EXCEPT !.completed = Append(@, m)], Undefined)
    ELSE RegistrationFailed(r.S, m, r)

\* the registration bodies the call has entered so far
Entered(F) == Cardinality({i \in 1..Len(F.log) : F.log[i].ev = "enter"})

\* a call that enters more bodies than MaxEntries counts as not terminating
RegisterModule(F, m, bad) ==
    IF AlreadyRegistered(F, m)
    THEN Ok(Logged(F, "skip", m, 0), Undefined)
    ELSE IF Entered(F) >= MaxEntries
    THEN ModErr(F, "Diverged", <<>>)
    ELSE BodyDone(RegisterBody(Logged([F EXCEPT !.fac.registeredModules = Append(@, m),
                                                !.fac.currentModuleName = m], "enter", m, 0),
                               m, bad),
                  m)

GetRegisteredModules(fac) == fac.registeredModules

IsModuleRegistered(fac, m) == m \in RangeOf(fac.registeredModules)

\* bad: the classes whose onModuleDestroy throws during this call
RECURSIVE InvokeDestroyHooks(_, _, _, _, _)
RECURSIVE InvokeDestroyHooksStopping(_, _, _, _, _)

\* await instance.onModuleDestroy() and its catch block
HookDestroyed(F, m, instance, bad) ==
    IF instance.cls \in bad
    THEN Logged(Logged(F, "destroy", m, instance.id), "destroyThrow", m, instance.id)
    ELSE Logged(F, "destroy", m, instance.id)

\* a loop that a throwing destroy hook ends
InvokeDestroyHooksStopping(F, m, destroyables, i, bad) ==
    IF i > Len(destroyables) THEN F
    ELSE IF destroyables[i].cls \in bad THEN HookDestroyed(F, m, destroyables[i], bad)
    ELSE InvokeDestroyHooksStopping(HookDestroyed(F, m, destroyables[i], bad),
                                    m, destroyables, i + 1, bad)

InvokeDestroyHooks(F, m, destroyables, i, bad) ==
    IF i > Len(destroyables) THEN F
    ELSE InvokeDestroyHooks(HookDestroyed(F, m, destroyables[i], bad), m, destroyables, i + 1, bad)

\* the end of destroyModule: forget the hooks, clear and drop the container
Unregistered(F, m) ==
    [F EXCEPT !.fac.destroyRegistry[m] = <<>>,
              !.inst[ContainerOf(m)] = IF m \in F.fac.moduleContainers THEN <<>> ELSE @,
              !.fac.moduleContainers = @ \ {m},
              !.fac.registeredModules = Remove(@, m),
              !.completed = Remove(@, m)]

DestroyModule(F, m, bad) ==
    Unregistered(InvokeDestroyHooks(F, m, F.fac.destroyRegistry[m], 1, bad), m)

RECURSIVE DestroyEach(_, _, _, _)
DestroyEach(F, modules, i, bad) ==
    IF i > Len(modules) THEN F
    ELSE DestroyEach(DestroyModule(F, modules[i], bad), modules, i + 1, bad)

\* destroyAllModules without reverse()
DestroyAllModulesInOrder(F, bad) == DestroyEach(F, GetRegisteredModules(F.fac), 1, bad)

DestroyAllModules(F, bad) == DestroyEach(F, Reverse(GetRegisteredModules(F.fac)), 1, bad)

----------------------------------------------------------------------------
(* Calls of the module factory and requests to the app *)

NewFactory ==
    [registeredModules |-> <<>>, moduleContainers |-> {}, currentModuleName |-> "",
     destroyRegistry |-> [m \in Modules |-> <<>>]]

DeclaredImports ==
    [m \in Modules |-> IF world.modules[m] = NoMeta THEN <<>> ELSE world.modules[m].imports]

FactoryHeap ==
    [inst |-> instances, next |-> nextId, log |-> <<>>, fac |-> factory,
     router |-> router, imports |-> imports, completed |-> completed]

Commit(F) ==
    /\ instances' = F.inst
    /\ nextId' = F.next
    /\ factory' = F.fac
    /\ router' = F.router
    /\ imports' = F.imports
    /\ completed' = F.completed

\* what the caller of registerModule sees: the promise resolves or rejects
Settled(m, bad, r) ==
    /\ Commit(r.S)
    /\ lastOp' = [Call("registerModule", NoContainer, m, Undefined) EXCEPT
                     !.ok = r.ok, !.err = r.err, !.log = r.S.log,
                     !.names = NamesOf(r), !.bad = bad]
    /\ seen' = IF r.ok THEN seen ELSE seen \cup {"failure"}
    /\ UNCHANGED calls

RegisterModuleCall(m, bad) ==
    /\ ops < MaxOps
    /\ Settled(m, bad, RegisterModule(FactoryHeap, m, bad))
    /\ ops' = ops + 1
    /\ UNCHANGED program

\* what the caller of destroyModule or destroyAllModules sees
Destroyed(op, m, F, bad) ==
    /\ Commit(F)
    /\ lastOp' = [Call(op, NoContainer, m, Undefined) EXCEPT !.log = F.log, !.bad = bad]
    /\ seen' = seen \cup {"destroy"}
    /\ UNCHANGED calls

DestroyModuleCall(m, bad) ==
    /\ ops < MaxOps
    /\ Destroyed("destroyModule", m, DestroyModule(FactoryHeap, m, bad), bad)
    /\ ops' = ops + 1
    /\ UNCHANGED program

DestroyAllModulesCall(bad) ==
    /\ ops < MaxOps
    /\ Destroyed("destroyAllModules", NoToken, DestroyAllModules(FactoryHeap, bad), bad)
    /\ ops' = ops + 1
    /\ UNCHANGED program

\* what the caller of app.request sees: d is what the router did
Responded(d, req) ==
    lastOp' = [Call("request", NoContainer, NoToken,
                    [k |-> "req", method |-> req.method, path |-> req.path,
                     failing |-> req.failing]) EXCEPT
                  !.ok = (d.status = 200), !.val = Prim(d.status), !.trace = d.trace]

\* app.request(path): the handlers the router runs, as events of the call
RequestCall(req) ==
    /\ ops < MaxOps
    /\ Responded(Dispatch(router, req), req)
    /\ ops' = ops + 1
    /\ UNCHANGED <<program, instances, nextId, modVars>>

NextMod ==
    \/ \E m \in world.mods : \E bad \in world.bads : RegisterModuleCall(m, bad)
    \/ \E m \in world.mods : \E bad \in world.destroyBads : DestroyModuleCall(m, bad)
    \/ \E bad \in world.destroyBads : DestroyAllModulesCall(bad)
    \/ \E req \in world.reqs : RequestCall(req)

----------------------------------------------------------------------------
(* registerModule as the async function it is: a call runs until its next    *)
(* await and is resumed later, other calls on the same factory may run in    *)
(* between.  A frame is one activation of registerModule, suspended at pc:   *)
(*   "load"        await of a loader's or an import's promise                *)
(*   "import"      await this.registerModule(modClass)                       *)
(*   "imports"     await this.registerImports(meta)                          *)
(*   "controllers" await this.registerControllers(...)                       *)
(*   "hooks"       await this.runInitHooksForModule(...)                     *)
(* got is the rejection that the awaited promise settles with, if any.       *)

NoError == [err |-> "none", names |-> <<>>]

ErrorOf(r) == IF r.ok THEN NoError ELSE [err |-> r.err, names |-> NamesOf(r)]

Frame(m, pc, i, resolvedImports) ==
    [m |-> m, pc |-> pc, i |-> i, resolvedImports |-> resolvedImports, got |-> NoError]

\* a call: the heap it leaves, its suspended frames (innermost last), its promise
Thread(F, stack) == [S |-> F, stack |-> stack, state |-> "pending", err |-> "none", names |-> <<>>]

\* the frame reaches an await
Suspended(F, stack, frame) == Thread(F, Append(stack, frame))

\* registerModule returns: the promise of the outermost activation resolves,
\* an inner one lets the awaiting frame go on when it is resumed
ModuleReturned(F, stack) ==
    IF stack = <<>> THEN [Thread(F, stack) EXCEPT !.state = "resolved"] ELSE Thread(F, stack)

\* registerModule throws r: the awaiting frame gets the rejection
ModuleThrown(r, stack) ==
    IF stack = <<>>
    THEN [Thread(r.S, stack) EXCEPT !.state = "rejected", !.err = r.err, !.names = NamesOf(r)]
    ELSE Thread(r.S, [stack EXCEPT ![Len(stack)].got = ErrorOf(r)])

RECURSIVE EnterModule(_, _, _)
RECURSIVE ImportLoop(_, _, _)

\* resolvedImports.push(modClass); await this.registerModule(modClass)
ImportCalled(F, stack, fr) ==
    EnterModule(F,
                Append(stack, [fr EXCEPT !.pc = "import",
                                         !.resolvedImports =
                                            Append(@, ImportClass(F.imports[fr.m][fr.i].m))]),
                F.imports[fr.m][fr.i].m)

\* the loop of registerImports from entry fr.i up to its next await
ImportLoop(F, stack, fr) ==
    IF Len(F.imports[fr.m]) = 0
    THEN Suspended(F, stack, [fr EXCEPT !.pc = "imports"])
    ELSE IF fr.i > Len(F.imports[fr.m])
    THEN Suspended([F EXCEPT !.imports[fr.m] = fr.resolvedImports], stack,
                   [fr EXCEPT !.pc = "imports"])
    ELSE IF F.imports[fr.m][fr.i].k = "class"
    THEN IF world.modules[F.imports[fr.m][fr.i].m] = NoMeta
         THEN Suspended(F, stack, [fr EXCEPT !.pc = "imports",
                                             !.got = [err |-> "TypeError", names |-> <<>>]])
         ELSE ImportCalled(F, stack, fr)
    ELSE IF F.imports[fr.m][fr.i].k = "value"
    THEN ImportLoop(F, stack, [fr EXCEPT !.i = @ + 1])
    ELSE Suspended(F, stack, [fr EXCEPT !.pc = "load"])

\* registerModule(m) from its first statement up to its first await
EnterModule(F, stack, m) ==
    IF AlreadyRegistered(F, m)
    THEN ModuleReturned(Logged(F, "skip", m, 0), stack)
    ELSE IF world.modules[m] = NoMeta
    THEN ModuleThrown(RegistrationFailed([Logged(Logged(F, "enter", m, 0), "throw", m, 0) EXCEPT
                                        !.fac.registeredModules = Append(@, m),
                                        !.fac.currentModuleName = m],
                                   m, Err(F, "MissingDecorator")),
                stack)
    ELSE ImportLoop([Logged(F, "enter", m, 0) EXCEPT
                        !.fac.registeredModules = Append(@, m),
                        !.fac.currentModuleName = m,
                        !.inst[ContainerOf(m)] = <<>>,
                        !.fac.moduleContainers = @ \cup {m}],
                    stack, Frame(m, "import", 1, <<>>))

\* r is what the awaited registerControllers or runInitHooksForModule did
Awaiting(r, stack, fr, pc) == Suspended(r.S, stack, [fr EXCEPT !.pc = pc, !.got = ErrorOf(r)])

\* the end of the try block
Finished(F, stack, fr) == ModuleReturned(BodyDone(Ok(F, Undefined), fr.m).S, stack)

\* the catch block, entered with the rejection the frame got
Failed(F, stack, fr) ==
    ModuleThrown(RegistrationFailed(F, fr.m, ModErr(F, fr.got.err, fr.got.names)), stack)

\* frame fr goes on after its await, up to its next await or its end
Continue(F, stack, fr, bad) ==
    CASE fr.pc = "load" ->
            IF F.imports[fr.m][fr.i].m = "none"
            THEN ImportLoop(F, stack, [fr EXCEPT !.i = @ + 1])
            ELSE ImportCalled(F, stack, fr)
      [] fr.pc = "import" ->
            IF fr.got # NoError
            THEN Suspended(F, stack, [fr EXCEPT !.pc = "imports"])
            ELSE ImportLoop(F, stack, [fr EXCEPT !.i = @ + 1])
      [] fr.got # NoError /\ fr.pc \in {"imports", "controllers", "hooks"} ->
            Failed(F, stack, fr)
      [] fr.got = NoError /\ fr.pc = "imports" ->
            Awaiting(RegisterControllers(
                        Logged(ProvidersRegistered(F, fr.m, ContainerOf(fr.m)),
                               "controllers", fr.m, 0),
                        world.modules[fr.m], ContainerOf(fr.m)),
                     stack, fr, "controllers")
      [] fr.got = NoError /\ fr.pc = "controllers" ->
            IF world.autoInit
            THEN Awaiting(RunInitHooksForModule(MiddlewareApplied(F, fr.m), fr.m,
                                                ContainerOf(fr.m), bad),
                          stack, fr, "hooks")
            ELSE Finished(MiddlewareApplied(F, fr.m), stack, fr)
      [] fr.got = NoError /\ fr.pc = "hooks" -> Finished(F, stack, fr)

\* what one step of call k leaves: t is what the call did up to its await
Stepped(op, k, m, bad, t) ==
    /\ Commit(t.S)
    /\ calls' = [j \in 1..(IF k > Len(calls) THEN k ELSE Len(calls)) |->
                    IF j = k
                    THEN [m |-> m, bad |-> bad, stack |-> t.stack, state |-> t.state]
                    ELSE calls[j]]
    /\ lastOp' = [Call(op, NoContainer, m, Prim(k)) EXCEPT
                     !.ok = (t.state # "rejected"), !.err = t.err, !.log = t.S.log,
                     !.names = t.names, !.bad = bad]
    /\ seen' = IF t.state = "rejected" THEN seen \cup {"failure"} ELSE seen

\* factory.registerModule(m), not awaited
StartCall(m, bad) ==
    /\ Len(calls) < MaxCalls
    /\ Stepped("start", Len(calls) + 1, m, bad, EnterModule(FactoryHeap, <<>>, m))
    /\ ops' = ops + 1
    /\ UNCHANGED program

\* the promise that the innermost frame of call k awaits settles
ResumeCall(k) ==
    /\ calls[k].state = "pending"
    /\ Stepped("resume", k, calls[k].m, calls[k].bad,
               Continue(FactoryHeap, SubSeq(calls[k].stack, 1, Len(calls[k].stack) - 1),
                        calls[k].stack[Len(calls[k].stack)], calls[k].bad))
    /\ UNCHANGED <<program, ops>>

NextAsync ==
    \/ \E m \in world.mods : \E bad \in world.bads : StartCall(m, bad)
    \/ \E k \in 1..Len(calls) : ResumeCall(k)

----------------------------------------------------------------------------
(* Specifications *)

\* @Injectable registers the class with the root container when it is declared
RECURSIVE DeclaredInjectables(_, _, _)
DeclaredInjectables(inst, classes, i) ==
    IF i > Len(classes) THEN inst
    ELSE DeclaredInjectables(Register(inst, "root", classes[i], Undefined), classes, i + 1)

InitWith(programs) ==
    /\ program \in programs
    /\ instances = DeclaredInjectables(EmptyContainers, world.rootDecl, 1)
    /\ nextId = 1
    /\ factory = NewFactory
    /\ router = <<>>
    /\ imports = DeclaredImports
    /\ completed = <<>>
    /\ seen = {}
    /\ ops = 0
    /\ lastOp = NoOp
    /\ calls = <<>>

InitDI == InitWith(DIPrograms)

SpecDI == InitDI /\ [][NextDI]_vars

InitCycle == InitWith(CyclePrograms)

SpecCycle == InitCycle /\ [][NextDI]_vars

InitMod == InitWith(ModPrograms)

SpecMod == InitMod /\ [][NextMod]_vars

AsyncPrograms == {"flat", "layered", "cyclic", "broken"}

InitAsync == InitWith(AsyncPrograms)

SpecAsync == InitAsync /\ [][NextAsync]_vars

----------------------------------------------------------------------------
(* Claims about the Container *)

RECURSIVE ReachVia(_, _, _)
ReachVia(step(_), set, n) ==
    IF n = 0 THEN set
    ELSE ReachVia(step, set \cup UNION {step(x) : x \in set}, n - 1)

CtorDepsOf(x) == IF x \in Classes THEN RangeOf(world.deps[x]) \ {NoToken} ELSE {}

AllDepsOf(x) ==
    IF x \in Classes
    THEN (RangeOf(world.deps[x]) \cup RangeOf(world.props[x])) \ {NoToken}
    ELSE {}

\* the classes the constructor of x needs, directly or indirectly
CtorReach(x) == ReachVia(CtorDepsOf, CtorDepsOf(x), Cardinality(Classes))

AllReach(x) == ReachVia(AllDepsOf, AllDepsOf(x), Cardinality(Classes))

OnCycle(x) == x \in CtorReach(x)

\* the classes on a constructor cycle through x
CycleOf(x) == {y \in CtorReach(x) : x \in CtorReach(y)}

Descendants(c) == {d \in Containers : c \in Ancestors(d)}

\* C1: for every container and every token whose entry in that container is a
\* class or factory registration, two resolve calls in a row return the same
\* instance, and the second call runs no constructor and no factory.
C1_SingletonPerContainer ==
    \A c \in Containers : \A t \in world.tokens :
        MapGet(instances[c], t).k = "prov" =>
            LET r1 == Resolve(instances, nextId, c, t)
                r2 == Resolve(r1.S.inst, r1.S.next, c, t)
            IN r1.ok => (r2.ok /\ r2.val = r1.val /\ r2.S.log = <<>>)

\* C4: when all classes on a constructor-dependency cycle are registered as
\* class providers in one container, resolve of a class on the cycle fails, and
\* never by exhausting the call stack; when every class the resolution reaches
\* is (or is auto-registered as) a class provider of that container, the
\* failure is the circular-dependency error.
C4_CircularDetected ==
    \A c \in Containers : \A t \in Classes :
        (OnCycle(t) /\ \A x \in CycleOf(t) : MapGet(instances[c], x) = ClassProvider(x)) =>
            LET r == Resolve(instances, nextId, c, t)
            IN /\ ~r.ok
               /\ r.err # "RangeError"
               /\ (\A x \in AllReach(t) :
                        \/ MapGet(instances[c], x) = ClassProvider(x)
                        \/ (x \in world.injectable /\ ~Has(instances, c, x)))
                    => r.err = "Circular"

C4_Witness ==
    /\ lastOp.op = "resolve"
    /\ OnCycle(lastOp.token)
    /\ Cardinality(CycleOf(lastOp.token)) >= 2
    /\ lastOp.err = "Circular"

\* C8: register or override of a token on a child container changes neither
\* has(token) nor the outcome of resolve(token) on any container outside the
\* child's subtree (its parent, its siblings), nor their maps.
C8_ChildIsolation ==
    [][(lastOp'.op \in {"register", "override"} /\ Parent(lastOp'.c) # NoContainer) =>
         \A d \in Containers \ ({lastOp'.c} \cup Descendants(lastOp'.c)) :
            LET before == Resolve(instances, nextId, d, lastOp'.token)
                after == Resolve(instances', nextId', d, lastOp'.token)
            IN /\ instances'[d] = instances[d]
               /\ Has(instances', d, lastOp'.token) = Has(instances, d, lastOp'.token)
               /\ after.ok = before.ok
               /\ after.val = before.val
               /\ after.err = before.err]_vars

C8_Witness ==
    /\ lastOp.op = "override"
    /\ Parent(lastOp.c) = "root"
    /\ MapHas(instances["root"], lastOp.token)
    /\ \E d \in Containers \ {lastOp.c, "root"} : MapHas(instances[d], lastOp.token)

\* C9: when a token has an entry in the parent but none in the child, and the
\* parent can resolve it, child.resolve(token) succeeds, returns the instance
\* that parent.resolve(token) returns, and leaves the child's own map alone.
C9_ParentInheritance ==
    \A c \in Containers : \A t \in world.tokens :
        (/\ Parent(c) # NoContainer
         /\ ~MapHas(instances[c], t)
         /\ MapHas(instances[Parent(c)], t)
         /\ Resolve(instances, nextId, Parent(c), t).ok) =>
            LET rc == Resolve(instances, nextId, c, t)
                rp == Resolve(rc.S.inst, rc.S.next, Parent(c), t)
            IN /\ rc.ok
               /\ rp.ok
               /\ rp.val = rc.val
               /\ rc.S.inst[c] = instances[c]

----------------------------------------------------------------------------
(* Claims about the module factory *)

EventsOf(log, ev) == SelectSeq(log, LAMBDA e : e.ev = ev)

RECURSIVE Runs(_)
Runs(seq) ==
    IF Len(seq) < 2 THEN seq
    ELSE IF seq[1] = seq[2] THEN Runs(Tail(seq))
    ELSE <<seq[1]>> \o Runs(Tail(seq))

\* the modules whose destroy hooks a call invoked, in the order of the calls
DestroyedModules(log) ==
    Runs([i \in 1..Len(EventsOf(log, "destroy")) |-> EventsOf(log, "destroy")[i].what])

FirstIndex(seq, x) == CHOOSE i \in 1..Len(seq) : seq[i] = x /\ \A j \in 1..(i - 1) : seq[j] # x

Imports(m, n) == ImportClass(n) \in RangeOf(imports[m])

ImportedBy(m) == {DeclaredImports[m][i].m : i \in 1..Len(DeclaredImports[m])} \ {"none"}

\* the modules m imports, directly or through its imports
ImportReach(m) == ReachVia(ImportedBy, ImportedBy(m), Cardinality(Modules))

Exports(m, p) == world.modules[m] # NoMeta /\ p \in RangeOf(world.modules[m].exports)

\* C2: after successful registrations only, when a registered module mb
\* imports a registered module ma that exports p, resolving p from mb's
\* container, from ma's container and from the root container gives the same
\* instance.
C2_ExportAliasing ==
    seen = {} =>
        \A ma, mb \in RangeOf(completed) : \A p \in world.tokens :
            (Imports(mb, ma) /\ Exports(ma, p)) =>
                LET rb == Resolve(instances, nextId, ContainerOf(mb), p)
                    ra == Resolve(rb.S.inst, rb.S.next, ContainerOf(ma), p)
                    rr == Resolve(ra.S.inst, ra.S.next, "root", p)
                IN rb.ok /\ ra.ok /\ rr.ok /\ rb.val = ra.val /\ ra.val = rr.val

\* C3: registerModule(M) while M is registered changes nothing: no route is
\* added, no provider is registered or built, no init hook runs, and M is
\* listed once by getRegisteredModules().
C3_RegisterTwiceIsNoOp ==
    [][(lastOp'.op = "registerModule" /\ IsModuleRegistered(factory, lastOp'.token)) =>
          /\ lastOp'.ok
          /\ router' = router
          /\ instances' = instances
          /\ nextId' = nextId
          /\ factory'.destroyRegistry = factory.destroyRegistry
          /\ \A i \in 1..Len(lastOp'.log) : lastOp'.log[i].ev \notin {"new", "call", "init"}
          /\ Len(Remove(GetRegisteredModules(factory'), lastOp'.token))
                = Len(GetRegisteredModules(factory')) - 1]_vars

C3_Witness ==
    /\ lastOp.op = "registerModule"
    /\ Len(lastOp.log) = 1
    /\ lastOp.log[1].ev = "skip"
    /\ Len(router) > 0
    /\ lastOp.token \in RangeOf(completed)

\* the handlers of module m's own stack: its module middleware, and the
\* middleware, validators and handler of the route
OwnHandler(m, h) ==
    h.kind = "mw" => \/ h.id \in RangeOf(world.modules[m].middleware)
                     \/ \E c \in Classes : h.id \in RangeOf(world.use[c])
                     \/ \E c \in Classes : \E i \in 1..Len(world.routes[c]) :
                            h.id \in RangeOf(world.routes[c][i].use)

KindsOf(trace) ==
    [i \in 1..Len(trace) |->
        IF trace[i].kind = "mw" THEN trace[i].id
        ELSE IF trace[i].kind = "validator" THEN trace[i].target
        ELSE "handler"]

\* C5: a request answered by the handler of a route of controller K of module
\* MB (module middleware m1, controller middleware m2, route middleware m3,
\* param, query and body schemas) runs m1, m2, m3, the param validator, the
\* query validator, the body validator and the handler, in that order.
C5_MiddlewareOrder ==
    (program = "layered" /\ lastOp.op = "request" /\ lastOp.ok) =>
        KindsOf(SelectSeq(lastOp.trace, LAMBDA h : OwnHandler("MB", h)))
            = <<"m1", "m2", "m3", "param", "query", "json", "handler">>

\* C6: when the registered modules import nothing from one another,
\* destroyAllModules() invokes their destroy hooks in the reverse of the order
\* in which they were registered.
C6_ReverseTeardown ==
    [][(lastOp'.op = "destroyAllModules"
            /\ \A m, n \in RangeOf(completed) : n \notin ImportReach(m)) =>
          DestroyedModules(lastOp'.log)
            = Reverse(SelectSeq(completed, LAMBDA m : Len(factory.destroyRegistry[m]) > 0))]_vars

C6_Witness ==
    /\ lastOp.op = "destroyAllModules"
    /\ Len(DestroyedModules(lastOp.log)) = 3
    /\ Cardinality(RangeOf(DestroyedModules(lastOp.log))) = 3

\* C7: when module m imports module n, destroyAllModules() invokes the destroy
\* hooks of m before those of n.
C7_ImporterDestroyedFirst ==
    [][lastOp'.op = "destroyAllModules" =>
          \A m, n \in RangeOf(DestroyedModules(lastOp'.log)) :
              Imports(m, n) =>
                  FirstIndex(DestroyedModules(lastOp'.log), m)
                    < FirstIndex(DestroyedModules(lastOp'.log), n)]_vars

\* C10: a registerModule(M) call in which a step throws rejects and leaves M
\* unregistered, and the next registerModule(M) call enters the registration
\* again instead of skipping it.
C10_FailureLeavesUnregistered ==
    (lastOp.op = "registerModule" /\ Len(EventsOf(lastOp.log, "throw")) > 0) =>
        /\ ~lastOp.ok
        /\ ~IsModuleRegistered(factory, lastOp.token)
        /\ \A bad \in world.bads :
              LET r == RegisterModule(FactoryHeap, lastOp.token, bad)
              IN r.S.log[1] = [ev |-> "enter", what |-> lastOp.token, id |-> 0]

C10_Witness ==
    /\ lastOp.op = "registerModule"
    /\ ~lastOp.ok
    /\ lastOp.err = "InitHookThrow"
    /\ Len(lastOp.names) = 2
    /\ Len(router) > 0

\* C11: every registerModule call terminates, also when the imports form a
\* cycle, and enters the registration body of each module at most once.
C11_TerminatesOncePerModule ==
    lastOp.op = "registerModule" =>
        /\ lastOp.err # "Diverged"
        /\ \A m \in Modules :
              Cardinality({i \in 1..Len(lastOp.log) :
                              lastOp.log[i].ev = "enter" /\ lastOp.log[i].what = m}) <= 1

C11_Witness ==
    /\ lastOp.op = "registerModule"
    /\ lastOp.ok
    /\ \E m, n \in RangeOf(completed) :
          /\ m # n /\ Imports(m, n) /\ Imports(n, m)
          /\ Len(EventsOf(lastOp.log, "enter")) >= 2
          /\ Len(EventsOf(lastOp.log, "skip")) >= 1

\* the instances of classes with an onModuleInit hook that a call built
BuiltWithInitHook(log) ==
    {log[i].id : i \in {j \in 1..Len(log) :
                            log[j].ev = "new" /\ log[j].what \in world.initHook /\ log[j].id # 0}}

InitCalls(log, id) == Cardinality({i \in 1..Len(log) : log[i].ev = "init" /\ log[i].id = id})

\* C12: a successful registerModule call invokes onModuleInit exactly once on
\* every instance it builds, and never twice on the same instance, also when
\* the instance is an exported provider shared with an importing module.
C12_InitExactlyOnce ==
    (lastOp.op = "registerModule" /\ lastOp.ok) =>
        /\ \A id \in BuiltWithInitHook(lastOp.log) : InitCalls(lastOp.log, id) = 1
        /\ \A id \in 1..nextId : InitCalls(lastOp.log, id) <= 1

\* the tokens of the providers that module m declares
Provided(m) ==
    IF world.modules[m] = NoMeta THEN {}
    ELSE {world.modules[m].providers[i].provide : i \in 1..Len(world.modules[m].providers)}

\* the declared providers of m that the call could not build, with the cause
FailedBuilds(log, m) ==
    {<<log[i].token, log[i].err>> :
        i \in {j \in 1..Len(log) : /\ log[j].ev = "skipToken"
                                    /\ log[j].what = m
                                    /\ log[j].token \in Provided(m)}}

\* C13: a registerModule(M) call during which a provider declared by M cannot
\* be built (constructor or factory throws, dependency missing, dependencies
\* circular) rejects.
C13_ProviderFailureRejects ==
    (lastOp.op = "registerModule" /\ FailedBuilds(lastOp.log, lastOp.token) # {}) => ~lastOp.ok

\* the validators of the routes that the router matches against the request
MatchedValidators(rt, req) ==
    {rt[i].h.target : i \in {j \in 1..Len(rt) : Matches(rt[j], req) /\ rt[j].h.kind = "validator"}}

Rejecting(h) == h.kind = "validator" /\ h.target \in lastOp.arg.failing

\* C14: a request that a param, query or body validator of its route rejects
\* ends with status 400 at the first rejecting validator: neither the route
\* handler nor any later validator runs.
C14_ValidationShortCircuit ==
    (lastOp.op = "request" /\ MatchedValidators(router, lastOp.arg) \cap lastOp.arg.failing # {}) =>
        /\ lastOp.val = Prim(400)
        /\ Len(lastOp.trace) > 0
        /\ Rejecting(lastOp.trace[Len(lastOp.trace)])
        /\ \A i \in 1..(Len(lastOp.trace) - 1) : ~Rejecting(lastOp.trace[i])
        /\ \A i \in 1..Len(lastOp.trace) : lastOp.trace[i].kind # "handler"

\* the query validator rejects after the param validator passed
C14_Witness ==
    /\ lastOp.op = "request"
    /\ lastOp.arg.failing = {"query", "json"}
    /\ lastOp.val = Prim(400)
    /\ \E i \in 1..Len(lastOp.trace) :
          lastOp.trace[i].kind = "validator" /\ lastOp.trace[i].target = "param"

\* the full path the routes of controller ctl of module m are specified to have
FullPath(m, ctl, route) ==
    NormalizeRoutePath(world.modules[m].prefix \o world.prefix[ctl], route.path)

\* the modules that list ctl among their controllers
ModulesOf(ctl) ==
    {m \in Modules : world.modules[m] # NoMeta /\ ctl \in RangeOf(world.modules[m].controllers)}

\* C15: every route handler in the router is registered under the normalized
\* concatenation of its module's prefix, its controller's prefix and the
\* route path.
C15_FullRoutePath ==
    \A i \in 1..Len(router) :
        router[i].h.kind = "handler" =>
            \E m \in ModulesOf(router[i].h.ctl) :
                \E r \in RangeOf(world.routes[router[i].h.ctl]) :
                    /\ r.key = router[i].h.key
                    /\ r.method = router[i].method
                    /\ router[i].path = FullPath(m, router[i].h.ctl, r)

\* the modules that m's descriptor lists as imports
DeclaredImportsOf(m) ==
    IF world.modules[m] = NoMeta THEN {}
    ELSE {world.modules[m].imports[i].m : i \in 1..Len(world.modules[m].imports)} \ {"none"}

\* C16: when registerModule(M) rejects although every import of M registered
\* successfully, so that the failing step is one of M's own, the error names
\* M and no other module.
C16_ErrorNamesFailingModule ==
    (/\ lastOp.op = "registerModule"
     /\ ~lastOp.ok
     /\ world.modules[lastOp.token] # NoMeta
     /\ DeclaredImportsOf(lastOp.token) \subseteq RangeOf(completed)) =>
        lastOp.names = <<lastOp.token>>

----------------------------------------------------------------------------
(* Claims about the providers of a container *)

\* the call failed with "No provider found for t"
NoProviderFor(r, t) ==
    /\ r.err = "NoProvider"
    /\ "token" \in DOMAIN r
    /\ r.token = t

\* C18: in every reachable container state has(token) is true exactly when
\* resolve(token) does not fail with the provider-not-found error, for tokens
\* held locally and for tokens held by an ancestor.
C18_HasIffResolvable ==
    \A c \in world.conts : \A t \in world.tokens :
        Has(instances, c, t) <=> ~NoProviderFor(Resolve(instances, nextId, c, t), t)

\* the value of a value provider: register(token, value) with a value that
\* is not a function, or the function () => useValue of a module's provider
IsValueProvider(p) == p # Undefined /\ (~IsFunction(p) \/ (p.k = "fun" /\ p.body = "const"))

ValueOf(p) == IF IsFunction(p) THEN p.arg ELSE p

\* C19: after a value provider is registered for a token, the first and the
\* second resolve(token) both return the value unchanged, whatever the value.
C19_ValueProviderUnchanged ==
    (lastOp.op = "register" /\ IsValueProvider(lastOp.arg)) =>
        LET r1 == Resolve(instances, nextId, lastOp.c, lastOp.token)
            r2 == Resolve(r1.S.inst, r1.S.next, lastOp.c, lastOp.token)
        IN /\ r1.ok /\ r1.val = ValueOf(lastOp.arg)
           /\ r2.ok /\ r2.val = ValueOf(lastOp.arg)

\* C20: after register(token, Class) with a token that is not the class,
\* resolve(token) returns an instance of the class built with new, its
\* constructor parameters injected, whatever the number of parameters.
C20_ClassProviderUnderToken ==
    (/\ lastOp.op = "register"
     /\ lastOp.arg.k = "ctor"
     /\ lastOp.arg # Ctor(lastOp.token)) =>
        LET r == Resolve(instances, nextId, lastOp.c, lastOp.token)
        IN /\ r.ok
           /\ r.val.k = "inst"
           /\ r.val.cls = lastOp.arg.cls
           /\ Len(r.val.args) = Len(world.deps[lastOp.arg.cls])
           /\ \E i \in 1..Len(r.S.log) :
                 /\ r.S.log[i].ev = "new"
                 /\ r.S.log[i].what = lastOp.arg.cls
                 /\ r.S.log[i].id = r.val.id

----------------------------------------------------------------------------
(* Claims about registration order, hooks and overrides *)

\* the instance that container c has cached for token t, if any
CachedInstance(inst, c, t) ==
    IF MapHas(inst[c], t) /\ MapGet(inst[c], t).k = "inst" THEN MapGet(inst[c], t) ELSE Undefined

\* C21: once the root container has cached the instance of a provider token,
\* no later registerModule call replaces it: the cache is written at most once.
C21_CacheWrittenOnce ==
    [][lastOp'.op = "registerModule" =>
          \A t \in world.tokens :
              CachedInstance(instances, "root", t) # Undefined =>
                  CachedInstance(instances', "root", t) = CachedInstance(instances, "root", t)]_vars

\* the position of the first event ev of module m in a log (0: none)
EventAt(log, ev, m) ==
    IF \E i \in 1..Len(log) : log[i].ev = ev /\ log[i].what = m
    THEN CHOOSE i \in 1..Len(log) :
            /\ log[i].ev = ev /\ log[i].what = m
            /\ \A j \in 1..(i - 1) : ~(log[j].ev = ev /\ log[j].what = m)
    ELSE 0

AcyclicImports == \A m \in Modules : m \notin ImportReach(m)

\* import n of a module was completely registered before position j of the
\* log, in this call or in an earlier one
DoneBefore(log, n, j) ==
    \/ (EventAt(log, "done", n) > 0 /\ EventAt(log, "done", n) < j)
    \/ (EventAt(log, "enter", n) = 0 /\ n \in RangeOf(completed))

StartedFresh(log) ==
    \A i \in 1..Len(log) :
        log[i].ev = "skip" =>
            \E j \in 1..(i - 1) : log[j].ev = "enter" /\ log[j].what = log[i].what

InitThrows(log) == {i \in 1..Len(log) : log[i].ev = "throw" /\ log[i].id # 0}

\* C23: when an onModuleInit hook throws during a registerModule call, no
\* further init hook of the module whose hook threw is invoked, the call
\* rejects, and neither that module nor the module of the call is registered
\* afterwards.
C23_InitFailureAborts ==
    lastOp.op = "registerModule" =>
        \A i \in InitThrows(lastOp.log) :
            /\ ~lastOp.ok
            /\ \A j \in (i + 1)..Len(lastOp.log) :
                  ~(lastOp.log[j].ev = "init" /\ lastOp.log[j].what = lastOp.log[i].what)
            /\ ~IsModuleRegistered(factory, lastOp.log[i].what)
            /\ ~IsModuleRegistered(factory, lastOp.token)

\* B's hook throws in MB while the hook of controller K is still to come
C23_Witness ==
    /\ lastOp.op = "registerModule"
    /\ lastOp.token = "MB"
    /\ lastOp.err = "InitHookThrow"
    /\ InitThrows(lastOp.log) # {}
    /\ "K" \in world.initHook
    /\ \E i \in 1..Len(lastOp.log) : lastOp.log[i].ev = "new" /\ lastOp.log[i].what = "K"

\* the instances whose event ev a log records, in the order of the events
IdsOf(log, ev) == [i \in 1..Len(EventsOf(log, ev)) |-> EventsOf(log, ev)[i].id]

\* C24: destroyModule(M) invokes the destroy hook of every instance that M
\* tracks, in order, also after one of the hooks has thrown; the call
\* resolves, M's container is cleared and dropped, and M is not registered
\* afterwards.
C24_DestroyHookFailureIsolated ==
    [][lastOp'.op = "destroyModule" =>
          /\ lastOp'.ok
          /\ IdsOf(lastOp'.log, "destroy")
                = [i \in 1..Len(factory.destroyRegistry[lastOp'.token]) |->
                      factory.destroyRegistry[lastOp'.token][i].id]
          /\ lastOp'.token \in factory.moduleContainers =>
                instances'[ContainerOf(lastOp'.token)] = <<>>
          /\ lastOp'.token \notin factory'.moduleContainers
          /\ factory'.destroyRegistry[lastOp'.token] = <<>>
          /\ ~IsModuleRegistered(factory', lastOp'.token)]_vars

\* the first of two destroy hooks threw and the second one ran
C24_Witness ==
    /\ lastOp.op = "destroyModule"
    /\ Len(EventsOf(lastOp.log, "destroyThrow")) > 0
    /\ lastOp.log[Len(lastOp.log)].ev = "destroy"
    /\ lastOp.log[Len(lastOp.log)].id # EventsOf(lastOp.log, "destroyThrow")[1].id

\* what override(T, x) promises the next resolve(T) to return: x, or the
\* result of calling x when x is a function without parameters
Overriding(inst, next, x) ==
    IF IsFunction(x) /\ FnLength(x) = 0
    THEN CallFactory(Heap(inst, next), x, MaxDepth).val
    ELSE x

\* the descendants of c that hold a resolved value of their own for t
HoldersBelow(inst, c, t) ==
    {d \in Descendants(c) : MapHas(inst[d], t) /\ MapGet(inst[d], t).k # "prov"}

\* C25: after override(T, x) on a container the next resolve(T) through it
\* returns x, or the result of x when x is a zero-argument factory, and a
\* descendant that holds its own resolved value for T resolves T as before.
C25_OverrideReplaces ==
    [][lastOp'.op = "override" =>
          /\ Resolve(instances', nextId', lastOp'.c, lastOp'.token).ok
          /\ Resolve(instances', nextId', lastOp'.c, lastOp'.token).val
                = Overriding(instances', nextId', lastOp'.arg)
          /\ \A d \in HoldersBelow(instances, lastOp'.c, lastOp'.token) :
                /\ instances'[d] = instances[d]
                /\ Resolve(instances', nextId', d, lastOp'.token).val
                      = Resolve(instances, nextId, d, lastOp'.token).val]_vars

\* C26: resolve(T) on a container where neither it nor an ancestor has an
\* entry for T fails with the provider-not-found error for T and leaves the
\* maps of all containers as they were.
C26_UnknownTokenFails ==
    \A c \in world.conts : \A t \in world.tokens :
        ~Has(instances, c, t) =>
            /\ ~Resolve(instances, nextId, c, t).ok
            /\ NoProviderFor(Resolve(instances, nextId, c, t), t)
            /\ Resolve(instances, nextId, c, t).S.inst = instances
            /\ Resolve(instances, nextId, c, t).S.next = nextId

\* such a resolve was called on a child whose parent holds other tokens
C26_Witness ==
    /\ lastOp.op = "resolve"
    /\ lastOp.err = "NoProvider"
    /\ Parent(lastOp.c) # NoContainer
    /\ ~Has(instances, lastOp.c, lastOp.token)
    /\ instances[Parent(lastOp.c)] # <<>>

\* the useFactory providers that module m declares
FactoryProviders(m) ==
    IF world.modules[m] = NoMeta THEN {}
    ELSE {p \in RangeOf(world.modules[m].providers) : p.k = "useFactory"}

\* the modules whose registration body a call entered
Entries(log) == [i \in 1..Len(EventsOf(log, "enter")) |-> EventsOf(log, "enter")[i].what]

FactoryCalls(log) ==
    Cardinality({i \in 1..Len(log) : log[i].ev = "call" /\ log[i].what = "useFactory"})

\* C27: after a successful registerModule(M), which resolves every provider
\* of M for the first time, each useFactory provider of M was called at most
\* once, its token resolves to the object the factory made from the values
\* of the inject tokens in declared order, and resolving the token again
\* returns that cached object without another call of the factory.
C27_FactoryProviderCached ==
    (lastOp.op = "registerModule" /\ lastOp.ok) =>
        /\ FactoryCalls(lastOp.log)
              <= Cardinality(UNION {FactoryProviders(m) : m \in RangeOf(Entries(lastOp.log))})
        /\ \A p \in FactoryProviders(lastOp.token) :
              /\ Resolve(instances, nextId, "root", p.provide).ok
              /\ Resolve(instances, nextId, "root", p.provide).val.k = "obj"
              /\ Resolve(instances, nextId, "root", p.provide).val.name = "made"
              /\ Resolve(instances, nextId, "root", p.provide).val.args
                    = [i \in 1..Len(p.inject) |->
                          Resolve(instances, nextId, "root", p.inject[i]).val]
              /\ FactoryCalls(Resolve(instances, nextId, "root", p.provide).S.log) = 0

\* the entries of m's declared imports that yield no module class
Unresolvable(m) ==
    IF world.modules[m] = NoMeta THEN {}
    ELSE {i \in 1..Len(world.modules[m].imports) : world.modules[m].imports[i].m = "none"}

\* the module classes that m's declared imports yield, in declared order
ResolvedImports(m) ==
    [i \in 1..Len(SelectSeq(world.modules[m].imports, LAMBDA e : e.m # "none")) |->
        ImportClass(SelectSeq(world.modules[m].imports, LAMBDA e : e.m # "none")[i].m)]

\* C28: a registerModule(M) call that enters M, whose imports hold entries
\* that yield no module class, skips those entries: the call succeeds, M and
\* the modules of its other imports are registered, and M's imports are the
\* resolved classes in declared order.
C28_UnresolvedImportSkipped ==
    (/\ lastOp.op = "registerModule"
     /\ Unresolvable(lastOp.token) # {}
     /\ Len(lastOp.log) > 0
     /\ lastOp.log[1].ev = "enter") =>
        /\ lastOp.ok
        /\ IsModuleRegistered(factory, lastOp.token)
        /\ \A n \in ImportedBy(lastOp.token) : IsModuleRegistered(factory, n)
        /\ imports[lastOp.token] = ResolvedImports(lastOp.token)

\* the import between the skipped entries was registered by the call
C28_Witness ==
    /\ lastOp.op = "registerModule"
    /\ lastOp.ok
    /\ Cardinality(Unresolvable(lastOp.token)) = 3
    /\ Entries(lastOp.log) = <<"MC", "MA">>
    /\ imports["MC"] = <<ImportClass("MA")>>

\* class a and the useFactory provider p need each other: a's constructor
\* takes p's token and p's inject lists a
FactoryCycle(a, p) ==
    /\ a \in Classes
    /\ a \in RangeOf(p.inject)
    /\ p.provide \in RangeOf(world.deps[a])

\* C29: when a registered module declares a class and a factory provider
\* that need each other, resolving the class or the factory's token from the
\* root container fails with the circular-dependency error, not by
\* exhausting the call stack.
C29_FactoryCycleDetected ==
    \A m \in RangeOf(completed) : \A p \in FactoryProviders(m) : \A a \in Provided(m) :
        FactoryCycle(a, p) =>
            /\ Resolve(instances, nextId, "root", a).err = "Circular"
            /\ Resolve(instances, nextId, "root", p.provide).err = "Circular"

\* C30: register(T, p) and register(T) leave T's entry in the container as
\* they would in an empty container, whatever registration or cached instance
\* T had before, change no other container, and make the next resolve(T)
\* build anew instead of returning the instance cached before.
C30_RegisterReplaces ==
    [][lastOp'.op = "register" =>
          /\ \A d \in Containers \ {lastOp'.c} : instances'[d] = instances[d]
          /\ MapGet(instances'[lastOp'.c], lastOp'.token)
                = MapGet(Register(EmptyContainers, lastOp'.c, lastOp'.token, lastOp'.arg)[lastOp'.c],
                         lastOp'.token)
          /\ CachedInstance(instances, lastOp'.c, lastOp'.token) # Undefined =>
                Resolve(instances', nextId', lastOp'.c, lastOp'.token).val
                    # CachedInstance(instances, lastOp'.c, lastOp'.token)]_vars

----------------------------------------------------------------------------
(* Claims about handler arguments, repeated registration and teardown *)

\* the route of the program that handler entry h was registered for
DeclaredRoute(h) == CHOOSE r \in RangeOf(world.routes[h.ctl]) : r.key = h.key

\* the argument positions that a decorator of route r binds
BoundIndices(r) ==
    {b.index : b \in RangeOf(r.pb) \cup RangeOf(r.qb) \cup RangeOf(r.bb) \cup RangeOf(r.lb)}

\* the handler entry of the last request, when the request reached the handler
Invocation == lastOp.trace[Len(lastOp.trace)]

HandlerInvoked ==
    lastOp.op = "request" /\ Len(lastOp.trace) > 0 /\ Invocation.kind = "handler"

\* C31: an invoked route handler receives, at each position bound to a
\* param, query or body schema, the request data parsed by the schema declared
\* at that position, undefined at each unbound position below the highest
\* bound one, and the request context as its last argument, which is its only
\* argument when the route has no bindings.
C31_HandlerArguments ==
    HandlerInvoked =>
        LET r == DeclaredRoute(Invocation)
            args == Invocation.args
        IN /\ Len(args) = Cardinality(0..(IF BoundIndices(r) = {} THEN -1
                                          ELSE CHOOSE n \in BoundIndices(r) :
                                                  \A o \in BoundIndices(r) : o <= n)) + 1
           /\ args[Len(args)] = Context
           /\ \A b \in RangeOf(r.pb) : args[b.index + 1] = Parsed("param", b.schema)
           /\ \A b \in RangeOf(r.qb) : args[b.index + 1] = Parsed("query", b.schema)
           /\ \A b \in RangeOf(r.bb) : args[b.index + 1] = Parsed("json", b.schema)
           /\ \A i \in 1..(Len(args) - 1) : (i - 1) \notin BoundIndices(r) => args[i] = Undefined

\* the router's handler registrations of route r of controller ctl
Registrations(ctl, r) ==
    {i \in 1..Len(router) :
        /\ router[i].h.kind = "handler"
        /\ router[i].h.ctl = ctl
        /\ router[i].h.key = r.key}

\* C32: between calls, each declared route of each controller of a currently
\* registered module has exactly one registration in the router.
C32_OneRegistrationPerRoute ==
    \A m \in RangeOf(factory.registeredModules) :
        \A ctl \in RangeOf(world.modules[m].controllers) :
            \A r \in RangeOf(world.routes[ctl]) :
                Cardinality(Registrations(ctl, r)) = 1

\* the calls whose promise resolves in this step
Resolving ==
    {k \in 1..Len(calls') :
        /\ calls'[k].state = "resolved"
        /\ k \in 1..Len(calls) => calls[k].state = "pending"}

\* C33: when the promise of a registerModule call resolves, whatever other
\* calls on the factory are suspended at that moment, the module passed to
\* the call and every module it imports have completed their provider
\* registration, controller registration and init hooks.
C33_ResolvedMeansRegistered ==
    [][\A k \in Resolving :
          ({calls'[k].m} \cup ImportReach(calls'[k].m)) \subseteq RangeOf(completed')]_vars

\* C34: one destroyAllModules call invokes the destroy hook of no instance
\* more than once, whichever modules track the instance.
C34_DestroyHookOncePerInstance ==
    lastOp.op = "destroyAllModules" =>
        \A i, j \in 1..Len(IdsOf(lastOp.log, "destroy")) :
            IdsOf(lastOp.log, "destroy")[i] = IdsOf(lastOp.log, "destroy")[j] => i = j

\* the destroy hooks a destroyAllModules call would invoke in the current state
NextTeardownHooks(bad) == IdsOf(DestroyAllModules(FactoryHeap, bad).log, "destroy")

\* C35: when destroyAllModules has completed, no module is registered, the
\* container of every module that had one is cleared and dropped, and a
\* destroyAllModules call that follows at once invokes no destroy hook.
C35_TeardownIsComplete ==
    lastOp.op = "destroyAllModules" =>
        /\ GetRegisteredModules(factory) = <<>>
        /\ factory.moduleContainers = {}
        /\ \A m \in Modules : instances[ContainerOf(m)] = <<>>
        /\ \A bad \in world.destroyBads : NextTeardownHooks(bad) = <<>>

\* A, B, C and D form a diamond of class providers of container c: each is
\* registered in c as a class, or is @Injectable and visible from nowhere, so
\* that c registers it when it is needed
DiamondIn(c) ==
    /\ world.deps["A"] = <<"B", "C">> /\ world.deps["B"] = <<"D">> /\ world.deps["C"] = <<"D">>
    /\ MapGet(instances[c], "A") = ClassProvider("A")
    /\ \A x \in {"B", "C", "D"} :
          \/ MapGet(instances[c], x) = ClassProvider(x)
          \/ (x \in world.injectable /\ ~Has(instances, c, x))

Constructions(log, cls) ==
    Cardinality({i \in 1..Len(log) : log[i].ev = "new" /\ log[i].what = cls})

\* C36: resolve(A) on a container holding a diamond of class providers (A
\* takes B and C, both take D) succeeds, constructs D exactly once and gives
\* B and C the same D instance.
C36_DiamondResolves ==
    \A c \in world.conts :
        DiamondIn(c) =>
            LET r == Resolve(instances, nextId, c, "A")
            IN /\ r.ok
               /\ Constructions(r.S.log, "D") = 1
               /\ r.val.args[1].args[1] = r.val.args[2].args[1]
               /\ r.val.args[1].args[1].k = "inst"
               /\ r.val.args[1].args[1].cls = "D"

\* resolve(t) on container c builds an instance from provider record p
Builds(inst, next, c, t, p) ==
    /\ Resolve(inst, next, c, t).ok
    /\ Resolve(inst, next, c, t).val = MapGet(Resolve(inst, next, c, t).S.inst[c], t)
    /\ p.type = "class" =>
          /\ Resolve(inst, next, c, t).val.k = "inst"
          /\ Resolve(inst, next, c, t).val.cls = p.ctor
          /\ Resolve(inst, next, c, t).val.id >= next

\* what resolve throws for a missing dependency (a class, or a token that is
\* not a class), a circular dependency, a throwing constructor or factory
BuildFailures == {"NoProvider", "TypeError", "Circular", "CtorThrow", "FactoryThrow"}

\* resolve(t) on c succeeds once repaired and builds from provider p, given
\* that it would have succeeded had the failed attempt not been made
StillBuilds(before, after, next, c, t, p) ==
    Resolve(before, next, c, t).ok => Builds(after, next, c, t, p)

\* C37: a resolve(T) that fails while the container builds T from its
\* provider leaves T's entry as it was, the provider and no cached value, in
\* every container, and once a registration or an override of another token
\* has removed the cause, resolve(T) builds an instance from that provider
\* and returns it.
C37_FailedBuildCachesNothing ==
    [][(/\ lastOp'.op = "resolve"
        /\ lastOp'.err \in BuildFailures
        /\ MapGet(instances[lastOp'.c], lastOp'.token).k = "prov") =>
          /\ \A d \in Containers :
                MapGet(instances'[d], lastOp'.token) = MapGet(instances[d], lastOp'.token)
          /\ \A d \in world.conts, x \in world.tokens \ {lastOp'.token} :
                /\ \A p \in world.ovrs :
                      StillBuilds(Override(instances, d, x, p), Override(instances', d, x, p),
                                  nextId', lastOp'.c, lastOp'.token,
                                  MapGet(instances[lastOp'.c], lastOp'.token))
                /\ \A p \in world.provs[x] :
                      StillBuilds(Register(instances, d, x, p), Register(instances', d, x, p),
                                  nextId', lastOp'.c, lastOp'.token,
                                  MapGet(instances[lastOp'.c], lastOp'.token))]_vars

\* B's constructor threw after D had been built for A
C37_Witness ==
    /\ program = "failing"
    /\ lastOp.op = "resolve" /\ lastOp.token = "A"
    /\ lastOp.err = "CtorThrow"
    /\ MapGet(instances[lastOp.c], "A") = ClassProvider("A")
    /\ CachedInstance(instances, lastOp.c, "D") # Undefined
====
